---- MODULE Spec2Model ----
(***************************************************************************)
(* Stand-and-hold pose coaching server (ai_box_server/stand_hold_server.py)*)
(*                                                                         *)
(* One connection task (ClientSession.run) as a state machine: the tick    *)
(* loop, the two non-blocking command drains, session start / stop /       *)
(* finish, and the peer's side of the socket.  Time is the monotonic clock *)
(* in whole seconds; the server is configured with fps = 1, so one loop    *)
(* interval is one clock unit.                                             *)
(*                                                                         *)
(* The segment selector (pick_representative_index) is a pure function; it *)
(* is modelled as an operator and exercised by the specification SelSpec.  *)
(***************************************************************************)
EXTENDS Integers, Sequences, FiniteSets, TLC

VARIABLES
    pc,              \* position of the connection task inside run()
    conn,            \* socket as the server's transport sees it
    inbox,           \* inbound lines received and not yet read
    sent,            \* number of lines the peer has sent so far
    now,             \* time.monotonic(), whole seconds
    loop_started,    \* run(): loop_started of the current tick
    session_active,  \* run(): session_active of the current tick
    pose,            \* run(): pose of the current tick ("none" = None)
    active,          \* self.active_session is not None
    sid,             \* identity of the ActiveSession object (0 = never created)
    started_at,      \* ActiveSession.started_at
    deadline_at,     \* ActiveSession.deadline_at
    frames,          \* ActiveSession.frames_base64_seq
    poses,           \* ActiveSession.poses_seq
    ts,              \* ActiveSession.ts_ms_seq
    send_landmarks,  \* config.send_landmarks
    out,             \* messages written to the socket since the current tick began
                     \* (the first tick's log starts with the connect prologue)
    req,             \* history: the start_session command that created session sid
    observed,        \* history: ticks that read session sid as active (line 925)
    nresults,        \* history: result messages written, per session
    fate,            \* history: how each session ended
    eof_seen,        \* history: sessions that were active when a drain read end-of-stream
    nulls,           \* history: detect_video calls that found no pose
    delays,          \* history: seconds the task lost inside its awaits
    sel,             \* selector harness: inputs and output of pick_representative_index
    fn,              \* harness of the other pure functions: the call, its input, its result
    cam              \* frame path: camera mode, latest client frame, clock, last frame read

vars == <<pc, conn, inbox, sent, now, loop_started, session_active, pose, active, sid,
          started_at, deadline_at, frames, poses, ts, send_landmarks, out, req,
          observed, nresults, fate, eof_seen, nulls, delays, sel, fn, cam>>

taskVars == <<pc, loop_started, session_active, pose, out>>
sessVars == <<active, sid, started_at, deadline_at, frames, poses, ts, req, observed>>
histVars == <<nresults, fate, eof_seen, nulls>>
envVars  == <<conn, inbox, sent, now, delays>>

-----------------------------------------------------------------------------
(* Bounds of the model *)

MaxCmds == 2        \* lines the peer sends on one connection
MaxInbox == 1       \* lines received and not yet read
MaxClock == 1       \* clock readings tracked while no session is running
MaxDelays == 1      \* seconds the task may lose inside its awaits (beyond the cadence)
MaxNullPoses == 1   \* frames in which the detector finds no pose
MaxFrames == 5      \* frames in a sequence handed to the selector
MaxRunFrames == 8   \* frames in a sequence of few kinds handed to the selector
MaxPostFrames == 4  \* frames in the buffers handed to postprocess_best_from_sequence
MaxTurns == 2       \* full turns, either way, of the angles handed to wrapped_angle_diff
MaxClientFrames == 2  \* client_frame commands handled on one connection
MaxFrameReads == 2  \* ticks that read a frame
MaxCamClock == 3    \* clock readings of the frame path
MaxStreamClock == 6 \* wall-clock readings of the lightweight streamer
MaxKalmanFrames == 5  \* measurements in a trajectory handed to kalman_rts_smooth_1d
MaxStartClock == 4  \* monotonic clock when a FrameProvider is constructed
MaxProviderClock == 7  \* seconds a FrameProvider is followed

(* Configuration and program constants *)

Fps == 1                 \* ServerConfig.fps
SessionSeconds == 3      \* ServerConfig.session_seconds
MinSessionSeconds == 1   \* lower clamp of duration_sec
MaxSessionSeconds == 15  \* upper clamp of duration_sec
client_frame_timeout_sec == 1  \* ServerConfig.client_frame_timeout_sec
reopen_interval_sec == 3  \* FrameProvider._reopen_interval_sec

Max(a, b) == IF a >= b THEN a ELSE b
Min(a, b) == IF a <= b THEN a ELSE b
Last(s) == s[Len(s)]

\* active_interval = 1.0 / max(int(fps), 1); idle_interval = max(active_interval, 1/3)
LoopInterval == 1 \div Max(Fps, 1)

-----------------------------------------------------------------------------
(* Inbound commands: the JSON objects a peer can send *)

NoCountdown == [has |-> FALSE, val |-> 0]
Countdown(v) == [has |-> TRUE, val |-> v]

Cmd(t, img, cd) == [type |-> t, image |-> img, countdown |-> cd]

CountdownInputs == {NoCountdown, Countdown(0), Countdown(-1), Countdown(2)}
ImageInputs == {"ok", "missing", "undecodable", "nopose"}

Commands ==
    {Cmd(t, "", NoCountdown) : t \in {"hello", "ping", "stop_session", "bogus"}}
    \cup {Cmd("start_session", "ok", cd) : cd \in CountdownInputs}
    \cup {Cmd("start_session", img, NoCountdown) : img \in ImageInputs \ {"ok"}}

KnownTypes == {"hello", "ping", "start_session", "stop_session", "client_frame"}

(* Outbound messages *)

Msg(t, s, n, x) == [type |-> t, sid |-> s, num |-> n, txt |-> x]

-----------------------------------------------------------------------------
(* ClientSession._start_session, lines 1158-1159:                            *)
(*   duration_sec = int(payload.get("countdown_sec", S) or S)                *)
(*   duration_sec = max(1, min(15, duration_sec))                            *)
(* A missing key yields S; so does every falsy value, in particular 0.       *)
DurationSec(cd) ==
    LET raw == IF cd.has THEN cd.val ELSE SessionSeconds
        val == IF raw = 0 THEN SessionSeconds ELSE raw
    IN  Max(MinSessionSeconds, Min(MaxSessionSeconds, val))

\* decode_base64_image(raw_image) is None
ImageUndecodable(img) == img \in {"missing", "undecodable"}

\* pose_estimator.detect_image(reference_image_bgr) is None
NoReferencePose_Unchecked(img) == FALSE
NoReferencePose(img) == img = "nopose"

\* run(), line 930: should_detect_pose
ShouldDetectPose(sa) == sa \/ send_landmarks

\* run(), line 944: the tick buffers a frame
ShouldBuffer_BeforeDeadline(sa) == sa /\ active /\ now < deadline_at
ShouldBuffer(sa) == sa /\ active

\* run(), line 946: self.active_session.poses_seq.append(pose)
NextPoses_SkipNone(p) == IF p = "none" THEN poses ELSE Append(poses, p)
NextPoses(p) == Append(poses, p)

\* run(), line 974: if self.config.send_landmarks
SendsLandmarks_Always == TRUE
SendsLandmarks == send_landmarks

\* run(), line 949: remaining_ms
RemainingMs == Max(0, (deadline_at - now) * 1000)

\* run(), line 985: the deadline test
DeadlineReached_Late == active /\ now > deadline_at
DeadlineReached == active /\ now >= deadline_at

\* _finish_session, line 1185: self.active_session = None
ActiveAfterFinish_Kept == TRUE
ActiveAfterFinish == FALSE

\* _handle_client_command, line 1082: self.active_session = None
ActiveAfterStop_Kept == TRUE
ActiveAfterStop == FALSE

\* run(), lines 939-941: number of keypoints in landmarks_payload
LandmarksPayload(p) == IF send_landmarks /\ p # "none" THEN 33 ELSE 0

\* postprocess_best_from_sequence, lines 1299-1301 (the empty-buffer result)
ResultReason(fs, ps) ==
    IF ps = <<>> \/ fs = <<>> THEN "No frames buffered" ELSE "postprocess"

-----------------------------------------------------------------------------
(* The socket.                                                              *)
(*   open : both directions work                                            *)
(*   eof  : the peer has closed its sending side; readline() returns b""    *)
(*          once the buffered lines are read; a write either still succeeds *)
(*          or fails, and then drain() raises ConnectionResetError          *)
(*   lost : the connection was reset: _send_json returns without writing,   *)
(*          readline() raises, writer.is_closing() is true; run() returns   *)

\* _send_json(m) returns, the task continues at np
Send(m, np) ==
    /\ out' = Append(out, m)
    /\ pc' = np

\* the clock is tracked up to MaxClock, and always up to a running session's deadline
CanAdvance == now < MaxClock \/ (active /\ now < deadline_at)

\* no ActiveSession object
NoSession ==
    /\ started_at' = 0
    /\ deadline_at' = 0
    /\ frames' = <<>>
    /\ poses' = <<>>
    /\ ts' = <<>>
    /\ req' = NoCountdown
    /\ observed' = 0

\* run(), lines 992-998: the task ends; its state is released
Closed ==
    /\ pc' = "closed"
    /\ loop_started' = 0
    /\ session_active' = FALSE
    /\ pose' = "none"
    /\ out' = <<>>
    /\ active' = FALSE
    /\ sid' = sid
    /\ NoSession
    /\ fate' = IF active THEN [fate EXCEPT ![sid] = "dropped"] ELSE fate
    /\ UNCHANGED <<nresults, eof_seen, nulls>>

\* a write on a half-closed socket fails: drain() raises, run() catches it
WriteRaises == conn = "eof" /\ Closed

-----------------------------------------------------------------------------
(* pick_representative_index.  A float is a record: fin says whether it is  *)
(* finite, val is its value (scores and velocities are whole numbers here). *)
(* Positions are 1-based; a run is <<start, end>> with end exclusive.  The   *)
(* quantile and the percentile are numpy's linear interpolation, kept exact *)
(* by scaling with the denominator of q.                                    *)

NaN == [fin |-> FALSE, val |-> 0]
Num(v) == [fin |-> TRUE, val |-> v]

\* np.isfinite
IsFinite(x) == x.fin

Abs(x) == IF x < 0 THEN -x ELSE x

\* np.sort / np.argsort: the positions in S by ascending key, ties in position order
RECURSIVE SortBy(_, _)
SortBy(S, key) ==
    IF S = {} THEN <<>>
    ELSE LET m == CHOOSE i \in S : \A j \in S : key[i] < key[j] \/ (key[i] = key[j] /\ i <= j)
         IN  <<m>> \o SortBy(S \ {m}, key)

\* the values key[i], i \in S, in ascending order
SortedValues(S, key) == LET o == SortBy(S, key) IN [k \in DOMAIN o |-> key[o[k]]]

\* np.quantile(a, num/den) and np.percentile(a, 100*num/den), times den; a is sorted
Quantile(a, num, den) ==
    LET h == num * (Len(a) - 1)
        lo == (h \div den) + 1
        r == h % den
    IN  IF r = 0 THEN den * a[lo] ELSE den * a[lo] + r * (a[lo + 1] - a[lo])

\* np.median(a), times 2; a is sorted
Median2(a) ==
    LET n == Len(a)
    IN  IF n % 2 = 1 THEN 2 * a[(n + 1) \div 2] ELSE a[n \div 2] + a[(n \div 2) + 1]

\* np.argmin(d): the first position of the least element
ArgMin(d) == CHOOSE i \in DOMAIN d : \A j \in DOMAIN d : d[i] < d[j] \/ (d[i] = d[j] /\ i <= j)

\* line 1580: valid = np.isfinite(scores) & reliables
Valid_All(scores, reliables) == DOMAIN scores
Valid_IgnoreReliables(scores, reliables) == {i \in DOMAIN scores : IsFinite(scores[i])}
Valid(scores, reliables) == {i \in DOMAIN scores : IsFinite(scores[i]) /\ reliables[i]}

\* line 1586: score_threshold, with top_score_delta = 12
ScoreThreshold(s_max) == Max(0, s_max - 12)

\* line 1595: min_len, with min_stable_seconds = 0.8
MinLen_NoFloor(fps) == (8 * Max(fps, 1) + 5) \div 10
MinLen(fps) == Max(3, (8 * Max(fps, 1) + 5) \div 10)

\* lines 1603-1605: the end of the run of stable frames that starts before end
RECURSIVE RunEnd(_, _)
RunEnd(stable, end) ==
    IF end <= Len(stable) /\ stable[end] THEN RunEnd(stable, end + 1) ELSE end

\* lines 1597-1608: the runs of stable frames of at least min_len frames
RECURSIVE ScanRuns(_, _, _)
ScanRuns(stable, idx, min_len) ==
    IF idx > Len(stable) THEN <<>>
    ELSE IF ~stable[idx] THEN ScanRuns(stable, idx + 1, min_len)
    ELSE LET end == RunEnd(stable, idx + 1)
         IN  (IF end - idx >= min_len THEN << <<idx, end>> >> ELSE <<>>)
             \o ScanRuns(stable, end, min_len)

\* lines 1626-1628: best_run = None, best_med = -1.0 (twice that here), best_len = -1
NoBestRun == [found |-> FALSE, run |-> <<0, 0>>, med |-> -2, len |-> -1]

\* line 1636: a run replaces the best one so far
BetterRun_AlsoOnTie(med, run_len, best) == med > best.med \/ (med = best.med /\ run_len >= best.len)
BetterRun(med, run_len, best) == med > best.med \/ (med = best.med /\ run_len > best.len)

\* lines 1629-1639: the run of the highest median, the longer one on a tie
RECURSIVE BestRun(_, _, _, _)
BestRun(runs, scores, k, best) ==
    IF k > Len(runs) THEN best
    ELSE LET start == runs[k][1]
             end == runs[k][2]
             finite == {i \in start..(end - 1) : IsFinite(scores[i])}
             med == Median2(SortedValues(finite, [i \in DOMAIN scores |-> scores[i].val]))
             run_len == end - start
         IN  IF finite = {} THEN BestRun(runs, scores, k + 1, best)
             ELSE IF BetterRun(med, run_len, best)
               THEN BestRun(runs, scores, k + 1,
                            [found |-> TRUE, run |-> runs[k], med |-> med, len |-> run_len])
               ELSE BestRun(runs, scores, k + 1, best)

\* the selector's return value; None is NoPick
NoPick == [mode |-> "none", pick |-> 0, segment_start |-> 0, segment_end |-> 0, topk |-> 0]

\* lines 1614-1615 and 1647-1648: of the frames idxs, the first whose score is nearest
\* to the 80th percentile of their scores
NearestToPercentile(idxs, val) ==
    LET target == Quantile(SortedValues(DOMAIN idxs, [k \in DOMAIN idxs |-> val[idxs[k]]]), 4, 5)
    IN  idxs[ArgMin([k \in DOMAIN idxs |-> Abs(5 * val[idxs[k]] - target)])]

\* line 1612: the size of the pick set of the fallback
TopK_All(candidates) == candidates
TopK(candidates) == Min(7, candidates)

\* lines 1568-1663
pick_representative_index(scores, reliables, vel, fps) ==
    LET total == Len(scores)
        valid == Valid(scores, reliables)
        val == [i \in DOMAIN scores |-> scores[i].val]
        s_max == CHOOSE m \in {val[i] : i \in valid} : \A i \in valid : val[i] <= m
        score_threshold == ScoreThreshold(s_max)
        valid_vel == {i \in valid : IsFinite(vel[i])}
        velv == [i \in DOMAIN vel |-> vel[i].val]
        \* 20 * vel_threshold; without a finite velocity the threshold is +inf
        vel_threshold == Quantile(SortedValues(valid_vel, velv), 7, 20)
        stable == [i \in 1..total |->
                      /\ i \in valid
                      /\ val[i] >= score_threshold
                      /\ IsFinite(vel[i])
                      /\ (valid_vel # {} => 20 * velv[i] <= vel_threshold)]
        runs == ScanRuns(stable, 1, MinLen(fps))
        candidate_idxs == SortBy(valid, val)
        k == TopK(Len(candidate_idxs))
        top == SubSeq(candidate_idxs, Len(candidate_idxs) - k + 1, Len(candidate_idxs))
        best == BestRun(runs, scores, 1, NoBestRun)
        seg == [j \in 1..(best.run[2] - best.run[1]) |-> best.run[1] + j - 1]
    IN  IF Cardinality(valid) < 3 THEN NoPick
        ELSE IF runs = <<>>
          THEN [mode |-> "fallback_topk", pick |-> NearestToPercentile(top, val),
                segment_start |-> 0, segment_end |-> 0, topk |-> k]
        ELSE IF ~best.found THEN NoPick
        ELSE [mode |-> "stable_segment", pick |-> NearestToPercentile(seg, val),
              segment_start |-> best.run[1], segment_end |-> best.run[2], topk |-> 0]

\* the frames the selector is exercised on: score, reliable flag, velocity
Frame(s, r, v) == [score |-> s, reliable |-> r, vel |-> v]

SelFrames ==
    { Frame(Num(90), TRUE, Num(1)), Frame(Num(80), TRUE, Num(1)), Frame(Num(60), TRUE, Num(1)),
      Frame(Num(90), TRUE, Num(5)), Frame(Num(90), TRUE, NaN), Frame(NaN, TRUE, Num(1)),
      Frame(NaN, FALSE, NaN), Frame(Num(90), FALSE, Num(1)) }

SelInputs == UNION {[1..n -> SelFrames] : n \in 0..MaxFrames}

\* longer sequences, with room for two qualifying runs, of fewer kinds of frames
RunFrames ==
    { Frame(Num(90), TRUE, Num(1)), Frame(Num(80), TRUE, Num(1)), Frame(Num(60), TRUE, Num(1)) }

RunInputs == UNION {[1..n -> RunFrames] : n \in (MaxFrames + 1)..MaxRunFrames}

Scores(input) == [i \in DOMAIN input |-> input[i].score]
Reliables(input) == [i \in DOMAIN input |-> input[i].reliable]
Vel(input) == [i \in DOMAIN input |-> input[i].vel]

\* the frame rates the selector is exercised at: min_len is 3 at the first, 4 at the second
SelFps == {1, 5}

SelIdle == [phase |-> "off", input |-> <<>>, fps |-> Fps, result |-> NoPick]

\* no pure function is being exercised
FnIdle == [op |-> "none", phase |-> "off"]

\* the frame path at rest: ClientSession.__init__, lines 889-891, before any tick
NoFrameRead == [source |-> "none", frame |-> 0]

CamIdle ==
    [mode |-> "auto", latest_client_frame |-> 0, latest_client_frame_at_monotonic |-> 0,
     client_source_announced |-> FALSE, now |-> 0, commands |-> 0, reads |-> 0,
     read |-> NoFrameRead, newest |-> 0, newest_at |-> 0]

Init ==
    /\ pc = "connect"
    /\ conn = "open"
    /\ inbox = <<>>
    /\ sent = 0
    /\ now = 0
    /\ loop_started = 0
    /\ session_active = FALSE
    /\ pose = "none"
    /\ active = FALSE
    /\ sid = 0
    /\ started_at = 0
    /\ deadline_at = 0
    /\ frames = <<>>
    /\ poses = <<>>
    /\ ts = <<>>
    /\ send_landmarks \in BOOLEAN
    /\ out = <<>>
    /\ req = NoCountdown
    /\ observed = 0
    /\ nresults = [s \in 1..MaxCmds |-> 0]
    /\ fate = [s \in 1..MaxCmds |-> "none"]
    /\ eof_seen = {}
    /\ nulls = 0
    /\ delays = 0
    /\ sel = SelIdle
    /\ fn = FnIdle
    /\ cam = CamIdle

-----------------------------------------------------------------------------
(* The peer and the clock.  The task reads the socket and starts sessions   *)
(* only inside its two drains, so a line, a close or a delay that happens   *)
(* at any other moment acts like one that happens when the next drain       *)
(* starts: the peer's writes, its close and the lost seconds are placed     *)
(* there.  A reset of the connection is noticed by every write and is       *)
(* placed anywhere.                                                         *)

AtDrain == pc \in {"drain1", "drain2"}

\* the peer writes one line
Arrive(c) ==
    /\ AtDrain
    /\ conn = "open"
    /\ sent < MaxCmds
    /\ Len(inbox) < MaxInbox
    /\ inbox' = Append(inbox, c)
    /\ sent' = sent + 1
    /\ UNCHANGED <<conn, now, delays, send_landmarks, sel, fn, cam>>
    /\ UNCHANGED <<taskVars, sessVars, histVars>>

\* the peer closes its sending side
PeerClose ==
    /\ AtDrain
    /\ conn = "open"
    /\ conn' = "eof"
    /\ UNCHANGED <<inbox, sent, now, delays, send_landmarks, sel, fn, cam>>
    /\ UNCHANGED <<taskVars, sessVars, histVars>>

\* the connection is reset: from then on _send_json writes nothing, the next readline()
\* raises and the loop test fails, so that run() returns before it does anything else
\* a peer could see
ConnLost ==
    /\ pc # "closed"
    /\ conn \in {"open", "eof"}
    /\ conn' = "lost"
    /\ Closed
    /\ UNCHANGED <<inbox, sent, now, delays, send_landmarks, sel, fn, cam>>

\* a second passes while the task is suspended in an await
Advance ==
    /\ AtDrain
    /\ CanAdvance
    /\ delays < MaxDelays
    /\ now' = now + 1
    /\ delays' = delays + 1
    /\ UNCHANGED <<conn, inbox, sent, send_landmarks, sel, fn, cam>>
    /\ UNCHANGED <<taskVars, sessVars, histVars>>

-----------------------------------------------------------------------------
(* ClientSession.run *)

\* lines 921-922: while not self.writer.is_closing(): loop_started = time.monotonic()
LoopTop(t, log) ==
    /\ pc' = "drain1"
    /\ loop_started' = t
    /\ out' = log
    /\ UNCHANGED <<session_active, pose>>
    /\ UNCHANGED <<sessVars, histVars>>

\* lines 897-922: server_info and the connect status, then the first tick starts
Connect ==
    /\ pc = "connect"
    /\ \/ LoopTop(now, <<Msg("server_info", 0, 0, ""), Msg("status", 0, 0, "info")>>)
       \/ WriteRaises
    /\ UNCHANGED <<envVars, send_landmarks, sel, fn, cam>>

\* _handle_client_command: hello
HandleHello ==
    /\ Send(Msg("status", 0, 0, "info"), pc)
    /\ UNCHANGED <<sessVars, histVars>>

\* _handle_client_command: ping
HandlePing ==
    /\ Send(Msg("pong", 0, 0, ""), pc)
    /\ UNCHANGED <<sessVars, histVars>>

\* _handle_client_command: stop_session, lines 1081-1084
HandleStop ==
    /\ active' = ActiveAfterStop
    /\ IF ActiveAfterStop
         THEN UNCHANGED <<started_at, deadline_at, frames, poses, ts, req, observed>>
         ELSE NoSession
    /\ sid' = sid
    /\ fate' = IF active THEN [fate EXCEPT ![sid] = "stopped"] ELSE fate
    /\ Send(Msg("session_stopped", IF active THEN sid ELSE 0, 0, ""), pc)
    /\ UNCHANGED <<nresults, eof_seen, nulls>>

\* ActiveSession, lines 207-209: each new session object gets lists of its own
\* (field(default_factory=list)), whatever the session before it had buffered
NewBuffer_Kept(old) == old
NewBuffer(old) == <<>>

\* _start_session, lines 1134-1177
StartSession(c) ==
    IF ImageUndecodable(c.image) \/ NoReferencePose(c.image)
      THEN /\ Send(Msg("error", 0, 0, c.image), pc)
           /\ UNCHANGED <<sessVars, histVars>>
      ELSE /\ active' = TRUE
           /\ sid' = sid + 1
           /\ started_at' = now
           /\ deadline_at' = now + DurationSec(c.countdown)
           /\ frames' = NewBuffer(frames)
           /\ poses' = NewBuffer(poses)
           /\ ts' = NewBuffer(ts)
           /\ req' = c.countdown
           /\ observed' = 0
           /\ fate' = [s \in 1..MaxCmds |->
                         IF s = sid + 1 THEN "active"
                         ELSE IF s = sid /\ active THEN "replaced"
                         ELSE fate[s]]
           /\ Send(Msg("session_started", sid + 1, DurationSec(c.countdown), ""), pc)
           /\ UNCHANGED <<nresults, eof_seen, nulls>>

\* _handle_client_command: an object of unknown type, lines 1094-1100
HandleUnknown_Silent ==
    /\ out' = out
    /\ pc' = pc
    /\ UNCHANGED <<sessVars, histVars>>
HandleUnknown ==
    /\ Send(Msg("status", 0, 0, "warning"), pc)
    /\ UNCHANGED <<sessVars, histVars>>

\* _handle_client_command, lines 1066-1100: dispatch on the type
Dispatch(c) ==
    CASE c.type = "hello" -> HandleHello
      [] c.type = "ping" -> HandlePing
      [] c.type = "stop_session" -> HandleStop
      [] c.type = "start_session" -> StartSession(c)
      [] OTHER -> HandleUnknown

\* _consume_commands_non_blocking: one line read and handled
HandleCommand ==
    /\ pc \in {"drain1", "drain2"}
    /\ inbox # <<>>
    /\ inbox' = Tail(inbox)
    /\ \/ /\ Dispatch(Head(inbox))
          /\ UNCHANGED <<loop_started, session_active, pose>>
       \/ WriteRaises
    /\ UNCHANGED <<conn, sent, now, delays, send_landmarks, sel, fn, cam>>

\* lines 943-981: the messages of one tick, in the order they are written
TickMessages(buffers, p) ==
    (IF buffers THEN <<Msg("session_progress", sid, RemainingMs, "")>> ELSE <<>>)
    \o <<Msg("frame", 0, 0, "")>>
    \o (IF SendsLandmarks THEN <<Msg("landmarks", 0, LandmarksPayload(p), "")>> ELSE <<>>)

\* first drain returns (timeout or b""); lines 925-981: observe the session, read a
\* frame, detect the pose, buffer the tick, write its messages
Tick ==
    /\ pc = "drain1"
    /\ inbox = <<>>
    /\ \/ \E p \in {"pose", "none"} :
            /\ p = "pose" => ShouldDetectPose(active)
            /\ (p = "none" /\ ShouldDetectPose(active)) => nulls < MaxNullPoses
            /\ nulls' = IF p = "none" /\ ShouldDetectPose(active) THEN nulls + 1 ELSE nulls
            /\ session_active' = active
            /\ pose' = p
            /\ IF ShouldBuffer(active)
                 THEN /\ frames' = Append(frames, "jpeg")
                      /\ poses' = NextPoses(p)
                      /\ ts' = Append(ts, now)
                      /\ observed' = observed + 1
                 ELSE UNCHANGED <<frames, poses, ts, observed>>
            /\ out' = out \o TickMessages(ShouldBuffer(active), p)
            /\ eof_seen' = IF conn = "eof" /\ active THEN eof_seen \cup {sid} ELSE eof_seen
            /\ pc' = "drain2"
            /\ UNCHANGED <<loop_started, nresults, fate>>
            /\ UNCHANGED <<active, sid, started_at, deadline_at, req>>
       \/ WriteRaises
    /\ UNCHANGED <<envVars, send_landmarks, sel, fn, cam>>

\* _finish_session, lines 1205-1217: the messages a call writes (none without a session)
FinishMessages ==
    IF ~active THEN <<>>
    ELSE <<Msg("result", sid, Len(frames), ResultReason(frames, poses))>>

\* _finish_session, lines 1179-1217
FinishSession ==
    /\ out' = out \o FinishMessages
    /\ pc' = "sleep"
    /\ IF ~active
         THEN UNCHANGED <<sessVars, nresults, fate, nulls>>
         ELSE /\ active' = ActiveAfterFinish
              /\ IF ActiveAfterFinish
                   THEN UNCHANGED <<started_at, deadline_at, frames, poses, ts, req, observed>>
                   ELSE NoSession
              /\ sid' = sid
              /\ fate' = [fate EXCEPT ![sid] = "finished"]
              /\ nresults' = [nresults EXCEPT ![sid] = @ + 1]
              /\ nulls' = nulls

\* second drain returns (timeout or b""); lines 985-986: the deadline test
Drain2Done ==
    /\ pc = "drain2"
    /\ inbox = <<>>
    /\ IF DeadlineReached
         THEN \/ /\ FinishSession
                 /\ eof_seen' = IF conn = "eof" THEN eof_seen \cup {sid} ELSE eof_seen
                 /\ UNCHANGED <<loop_started, session_active, pose>>
              \/ WriteRaises
         ELSE /\ pc' = "sleep"
              /\ eof_seen' = IF conn = "eof" /\ active THEN eof_seen \cup {sid} ELSE eof_seen
              /\ UNCHANGED <<loop_started, session_active, pose, out>>
              /\ UNCHANGED <<sessVars, nresults, fate, nulls>>
    /\ UNCHANGED <<envVars, send_landmarks, sel, fn, cam>>

\* lines 988-990: pad the tick to loop_interval; then the next tick starts
SleptUntil ==
    IF now - loop_started < LoopInterval /\ CanAdvance
      THEN loop_started + LoopInterval
      ELSE now

Sleep ==
    /\ pc = "sleep"
    /\ now' = SleptUntil
    /\ LoopTop(SleptUntil, <<>>)
    /\ UNCHANGED <<conn, inbox, sent, delays, send_landmarks, sel, fn, cam>>

Task ==
    \/ Connect
    \/ HandleCommand
    \/ Tick
    \/ Drain2Done
    \/ Sleep

Next ==
    \/ \E c \in Commands : Arrive(c)
    \/ PeerClose
    \/ ConnLost
    \/ Advance
    \/ Task

Spec == Init /\ [][Next]_vars

\* the cooperative task is always scheduled again: every await of run() returns
FairSpec == Spec /\ WF_vars(Task)

-----------------------------------------------------------------------------
(* The selector on its own: the inputs are drawn first, then it is applied. *)

SelInit ==
    /\ pc = "closed"
    /\ conn = "lost"
    /\ inbox = <<>>
    /\ sent = 0
    /\ now = 0
    /\ loop_started = 0
    /\ session_active = FALSE
    /\ pose = "none"
    /\ active = FALSE
    /\ sid = 0
    /\ started_at = 0
    /\ deadline_at = 0
    /\ frames = <<>>
    /\ poses = <<>>
    /\ ts = <<>>
    /\ send_landmarks = FALSE
    /\ out = <<>>
    /\ req = NoCountdown
    /\ observed = 0
    /\ nresults = [s \in 1..MaxCmds |-> 0]
    /\ fate = [s \in 1..MaxCmds |-> "none"]
    /\ eof_seen = {}
    /\ nulls = 0
    /\ delays = 0
    /\ sel \in {[phase |-> "input", input |-> i, fps |-> f, result |-> NoPick] :
                   i \in SelInputs, f \in SelFps}
              \cup {[phase |-> "input", input |-> i, fps |-> Fps, result |-> NoPick] :
                       i \in RunInputs}
    /\ fn = FnIdle
    /\ cam = CamIdle

Select ==
    /\ sel.phase = "input"
    /\ sel' = [sel EXCEPT !.phase = "done",
                          !.result = pick_representative_index(Scores(sel.input), Reliables(sel.input),
                                                               Vel(sel.input), sel.fps)]
    /\ UNCHANGED <<taskVars, sessVars, histVars, envVars, send_landmarks, fn, cam>>

SelNext == Select

SelSpec == SelInit /\ [][SelNext]_vars

-----------------------------------------------------------------------------
(* The pure functions on their own.  While one of them is exercised there is *)
(* no connection: the session machine rests in its closed state.             *)

Detached ==
    /\ pc = "closed"
    /\ conn = "lost"
    /\ inbox = <<>>
    /\ sent = 0
    /\ now = 0
    /\ loop_started = 0
    /\ session_active = FALSE
    /\ pose = "none"
    /\ active = FALSE
    /\ sid = 0
    /\ started_at = 0
    /\ deadline_at = 0
    /\ frames = <<>>
    /\ poses = <<>>
    /\ ts = <<>>
    /\ send_landmarks = FALSE
    /\ out = <<>>
    /\ req = NoCountdown
    /\ observed = 0
    /\ nresults = [s \in 1..MaxCmds |-> 0]
    /\ fate = [s \in 1..MaxCmds |-> "none"]
    /\ eof_seen = {}
    /\ nulls = 0
    /\ delays = 0
    /\ sel = SelIdle

\* a call of a pure function, before and after it returns
Call(op, input) == [op |-> op, phase |-> "input", input |-> input]
Return(result) == [op |-> fn.op, phase |-> "done", input |-> fn.input, result |-> result]
Returned(op) == fn.op = op /\ fn.phase = "done"

-----------------------------------------------------------------------------
(* postprocess_best_from_sequence.  A pose packet is reduced to one          *)
(* coordinate (pts) and to whether at least 6 of its selected joints reach   *)
(* conf_threshold (conf).  A buffered frame carries the raw packet, the      *)
(* coordinate the RTS smoother gives it (the filter's arithmetic is not      *)
(* modelled: its output is an input here), and the ScoreResult of the        *)
(* smoothed packet against the reference.                                    *)

PoseNone == [present |-> FALSE, pts |-> 0, conf |-> FALSE]
PosePacket(pts, conf) == [present |-> TRUE, pts |-> pts, conf |-> conf]

\* a buffered frame: raw pose (None when ~has_pose), smoother output, score of the smoothed pose
PostFrame(has_pose, raw, smooth, conf, final, reliable) ==
    [has_pose |-> has_pose, raw |-> raw, smooth |-> smooth, conf |-> conf,
     final |-> final, reliable |-> reliable]

\* session.poses_seq
RawPoses(input) ==
    [i \in DOMAIN input |->
        IF input[i].has_pose THEN PosePacket(input[i].raw, input[i].conf) ELSE PoseNone]

\* stabilize_pose_sequence_rts, lines 1418-1424: None stays None, a packet keeps its
\* vis and pres and gets the smoothed points
stabilize_pose_sequence_rts(poses_seq, out_points) ==
    [t \in DOMAIN poses_seq |->
        IF ~poses_seq[t].present THEN PoseNone
        ELSE PosePacket(out_points[t], poses_seq[t].conf)]

\* compute_motion_energy, lines 1538-1565
compute_motion_energy(poses_seq) ==
    [idx \in DOMAIN poses_seq |->
        IF idx = 1 THEN NaN
        ELSE IF ~poses_seq[idx - 1].present \/ ~poses_seq[idx].present THEN NaN
        ELSE IF ~(poses_seq[idx - 1].conf /\ poses_seq[idx].conf) THEN NaN
        ELSE Num(Abs(poses_seq[idx].pts - poses_seq[idx - 1].pts))]

\* lines 1330-1333: the sequence handed to compute_motion_energy
MotionInput(poses_seq, smoothed_seq) == smoothed_seq

\* lines 1299-1301, 1345-1347, 1351-1353: the three results without a frame
EmptyReason == "No frames buffered"
NoPickReason_Blank == ""
NoPickReason == "No reliable frame found (postprocess)"
NoScoreReason == "Selected frame has no valid score"

\* the return value (best_score, best_frame, metrics, best_landmarks); best_frame is the
\* position of the frame in the buffer (0: ""), landmarks the number of keypoints;
\* picked and vel are what the selector returned and was given
PostResult(score, frame, reliable, reason, landmarks, picked, vel) ==
    [best_score |-> score, best_frame |-> frame, reliable |-> reliable, reason |-> reason,
     landmarks |-> landmarks, picked |-> picked, vel |-> vel]

\* pose_to_json_points, lines 1271-1286
pose_to_json_points(p) == IF p.present THEN 33 ELSE 0

\* lines 1289-1374
postprocess_best_from_sequence(input, fps) ==
    LET poses_seq == RawPoses(input)
        smoothed_seq == stabilize_pose_sequence_rts(poses_seq, [t \in DOMAIN input |-> input[t].smooth])
        \* lines 1317-1328: results[idx] is None for a frame without pose
        scored == [idx \in DOMAIN input |-> smoothed_seq[idx].present /\ IsFinite(input[idx].final)]
        scores == [idx \in DOMAIN input |-> IF scored[idx] THEN input[idx].final ELSE NaN]
        reliables == [idx \in DOMAIN input |-> scored[idx] /\ input[idx].reliable]
        vel == compute_motion_energy(MotionInput(poses_seq, smoothed_seq))
        picked == pick_representative_index(scores, reliables, vel, Max(1, fps))
        best_idx == picked.pick
    IN  IF input = <<>>
          THEN PostResult(0, 0, FALSE, EmptyReason, 0, NoPick, <<>>)
        ELSE IF picked = NoPick
          THEN PostResult(0, 0, FALSE, NoPickReason, 0, picked, vel)
        ELSE IF ~smoothed_seq[best_idx].present \/ ~IsFinite(input[best_idx].final)
          THEN PostResult(0, 0, FALSE, NoScoreReason, 0, picked, vel)
        ELSE PostResult(input[best_idx].final.val, best_idx, input[best_idx].reliable, "",
                        IF poses_seq[best_idx].present
                          THEN pose_to_json_points(poses_seq[best_idx])
                          ELSE pose_to_json_points(smoothed_seq[best_idx]),
                        picked, vel)

\* _finish_session, lines 1205-1217: the result payload built from the return value
ResultPayload(r) ==
    [type |-> "result", best_score |-> r.best_score, best_frame |-> r.best_frame,
     reliable |-> r.reliable, reason |-> r.reason, landmarks |-> r.landmarks]

\* the buffered frames the function is exercised on
PostFrames ==
    { PostFrame(FALSE, 0, 0, FALSE, NaN, FALSE),
      PostFrame(TRUE, 0, 0, TRUE, Num(90), TRUE),
      PostFrame(TRUE, 4, 1, TRUE, Num(90), TRUE),
      PostFrame(TRUE, 1, 1, TRUE, Num(70), TRUE),
      PostFrame(TRUE, 0, 0, TRUE, NaN, FALSE),
      PostFrame(TRUE, 0, 0, FALSE, NaN, FALSE) }

PostInputs == UNION {[1..n -> PostFrames] : n \in 0..MaxPostFrames}

PostInit ==
    /\ Detached
    /\ cam = CamIdle
    /\ fn \in {Call("postprocess", i) : i \in PostInputs}

\* _finish_session, lines 1187-1217, for a session with these buffers
Postprocess ==
    /\ fn.op = "postprocess" /\ fn.phase = "input"
    /\ fn' = Return([post |-> postprocess_best_from_sequence(fn.input, Fps),
                     msg |-> ResultPayload(postprocess_best_from_sequence(fn.input, Fps))])
    /\ UNCHANGED <<taskVars, sessVars, histVars, envVars, send_landmarks, sel, cam>>

PostNext == Postprocess

PostSpec == PostInit /\ [][PostNext]_vars

-----------------------------------------------------------------------------
(* PoseScorer.  The numerics (centering, Procrustes, the angle and bone      *)
(* geometry) are not modelled: what they hand to the branches of             *)
(* _score_single is the input here.  A measurement holds, for one candidate  *)
(* against the reference: the number of selected joints whose weight reaches *)
(* conf_threshold, whether the alignment error is finite, coord_score * 100, *)
(* and for angles and bones the number of usable items and score * 100.      *)
(* An optional value (float | None) is a record: some says whether it is set.*)

None == [some |-> FALSE, val |-> 0]
Some(v) == [some |-> TRUE, val |-> v]

\* ScoreConfig, lines 126-135 (weights in tenths)
w_coord == 4
w_angle == 4
w_bone == 2
min_valid_joints == 6
min_valid_angles == 2
min_valid_bones == 3

Measure(joints, err_finite, coord, angles, angle, bones, bone) ==
    [joints |-> joints, err_finite |-> err_finite, coord |-> coord,
     angles |-> angles, angle |-> angle, bones |-> bones, bone |-> bone]

\* ScoreResult, lines 139-152
ScoreResult(final, coord_score, angle_score, bone_score, matched_joints, matched_angles, matched_bones, reliable, reason) ==
    [final |-> final, coord_score |-> coord_score, angle_score |-> angle_score,
     bone_score |-> bone_score, matched_joints |-> matched_joints,
     matched_angles |-> matched_angles, matched_bones |-> matched_bones,
     reliable |-> reliable, mirror_used |-> FALSE, reason |-> reason]

\* compute_angle_score, lines 1886-1895: no usable triplet gives (None, 0)
compute_angle_score(m) ==
    IF m.angles = 0 THEN [score |-> None, matched |-> 0]
    ELSE [score |-> Some(m.angle), matched |-> m.angles]

\* compute_bone_score, lines 1943-1949: no usable bone gives (None, 0)
compute_bone_score(m) ==
    IF m.bones = 0 THEN [score |-> None, matched |-> 0]
    ELSE [score |-> Some(m.bone), matched |-> m.bones]

\* np.clip(x, lo, hi)
Clip(x, lo, hi) == Max(lo, Min(hi, x))

\* lines 677-682, on scores already multiplied by 100
FinalScore(coord, angle, bone) ==
    Clip((w_coord * coord + w_angle * angle + w_bone * bone) \div 10, 0, 100)

\* line 643: the test that sends a candidate to "Insufficient reliable angles or bones."
ScoreMissing(a, b) == ~a.score.some \/ ~b.score.some

\* line 660: the floors on angles and bones
BelowFloors_BonesOnly(a, b) == b.matched < min_valid_bones
BelowFloors(a, b) == a.matched < min_valid_angles \/ b.matched < min_valid_bones

\* PoseScorer._score_single, lines 568-698
_score_single(m) ==
    LET a == compute_angle_score(m)
        b == compute_bone_score(m)
    IN  IF m.joints < min_valid_joints
          THEN ScoreResult(None, None, None, None, m.joints, 0, 0, FALSE,
                           "Too few reliable joints.")
        ELSE IF ~m.err_finite
          THEN ScoreResult(None, None, None, None, m.joints, 0, 0, FALSE,
                           "Procrustes alignment failed.")
        ELSE IF ScoreMissing(a, b)
          THEN ScoreResult(None, Some(m.coord), a.score, b.score, m.joints, a.matched,
                           b.matched, FALSE, "Insufficient reliable angles or bones.")
        ELSE IF BelowFloors(a, b)
          THEN ScoreResult(None, Some(m.coord), a.score, b.score, m.joints, a.matched,
                           b.matched, FALSE, "Pose not reliable.")
        ELSE ScoreResult(Some(FinalScore(m.coord, a.score.val, b.score.val)), Some(m.coord),
                         a.score, b.score, m.joints, a.matched, b.matched, TRUE, "")

\* line 564: the comparison of two finals
HigherFinal_OrEqual(mirrored, normal) == mirrored.final.val >= normal.final.val
HigherFinal(mirrored, normal) == mirrored.final.val > normal.final.val

\* PoseScorer.score, lines 544-566, on the measurements of the pose and of its mirror image
score(m_normal, m_mirrored) ==
    LET normal == _score_single(m_normal)
        mirrored == [_score_single(m_mirrored) EXCEPT !.mirror_used = TRUE]
    IN  IF ~normal.final.some /\ ~mirrored.final.some
          THEN IF mirrored.matched_joints > normal.matched_joints THEN mirrored ELSE normal
        ELSE IF ~normal.final.some THEN mirrored
        ELSE IF ~mirrored.final.some THEN normal
        ELSE IF HigherFinal(mirrored, normal) THEN mirrored
        ELSE normal

\* the measurements the scorer is exercised on; what _score_single never computes is left 0
Measures ==
    { Measure(j, FALSE, 0, 0, 0, 0, 0) : j \in {4, 5, 6, 7} }
    \cup { Measure(6, TRUE, c, a[1], a[2], b[1], b[2]) :
             c \in {50, 100},
             a \in {<<0, 0>>, <<1, 50>>, <<2, 50>>, <<2, 100>>},
             b \in {<<0, 0>>, <<2, 100>>, <<3, 50>>, <<3, 100>>} }

ScoreInputs == {[normal |-> n, mirrored |-> m] : n \in Measures, m \in Measures}

ScoreInit ==
    /\ Detached
    /\ cam = CamIdle
    /\ fn \in {Call("score", i) : i \in ScoreInputs}

\* one call of PoseScorer.score; the two candidates it compared are kept beside its result
Score ==
    /\ fn.op = "score" /\ fn.phase = "input"
    /\ fn' = Return([normal |-> _score_single(fn.input.normal),
                     mirrored |-> _score_single(fn.input.mirrored),
                     chosen |-> score(fn.input.normal, fn.input.mirrored)])
    /\ UNCHANGED <<taskVars, sessVars, histVars, envVars, send_landmarks, sel, cam>>

ScoreNext == Score

ScoreSpec == ScoreInit /\ [][ScoreNext]_vars

-----------------------------------------------------------------------------
(* wrapped_angle_diff, on whole degrees *)

\* lines 1964-1966
wrapped_angle_diff(a, b) ==
    LET diff == Abs(a - b)
    IN  Min(diff, 360 - diff)

\* the angles it is exercised on: multiples of 45 degrees up to MaxTurns full turns either way
Angles == {45 * k : k \in (-8 * MaxTurns)..(8 * MaxTurns)}

AngleInit ==
    /\ Detached
    /\ cam = CamIdle
    /\ fn \in {Call("wrapped_angle_diff", [a |-> a, b |-> b]) : a \in Angles, b \in Angles}

\* one call in each order of the arguments
AngleDiff ==
    /\ fn.op = "wrapped_angle_diff" /\ fn.phase = "input"
    /\ fn' = Return([ab |-> wrapped_angle_diff(fn.input.a, fn.input.b),
                     ba |-> wrapped_angle_diff(fn.input.b, fn.input.a)])
    /\ UNCHANGED <<taskVars, sessVars, histVars, envVars, send_landmarks, sel, cam>>

AngleNext == AngleDiff

AngleSpec == AngleInit /\ [][AngleNext]_vars

-----------------------------------------------------------------------------
(* The frame path of the connection task on its own: the client_frame        *)
(* command, the clock, and the frame a tick reads.  cam holds the camera     *)
(* mode, latest_client_frame (0: None, else the number of the command that   *)
(* brought it) with its time stamp, client_source_announced, the clock, and  *)
(* what the last tick read.  The history fields remember the newest          *)
(* decodable client frame whatever the mode did with it.                     *)

CameraModes == {"auto", "webcam", "hikvision", "client"}

\* lines 1023-1025: the frame is stale when its age exceeds the timeout
Stale_AtTimeout(age_sec) == age_sec >= client_frame_timeout_sec
Stale(age_sec) == age_sec > client_frame_timeout_sec

\* ClientSession._latest_client_frame_if_fresh, lines 1019-1026 (0: None)
_latest_client_frame_if_fresh(c) ==
    IF c.latest_client_frame = 0 THEN 0
    ELSE IF Stale(c.now - c.latest_client_frame_at_monotonic) THEN 0
    ELSE c.latest_client_frame

\* line 1103: the modes in which a client frame is taken
AcceptsClientFrame(mode) == mode \in {"auto", "client"}

\* ClientSession._read_effective_frame, lines 1009-1017: the frames it can return;
\* FrameProvider.read gives a captured frame, or the placeholder when no source opens
_read_effective_frame(c) ==
    IF _latest_client_frame_if_fresh(c) # 0
      THEN {[source |-> "client", frame |-> _latest_client_frame_if_fresh(c)]}
    ELSE IF c.mode = "client"
      THEN {[source |-> "placeholder", frame |-> 0]}
    ELSE {[source |-> "capture", frame |-> 0], [source |-> "placeholder", frame |-> 0]}

CamInit ==
    /\ Detached
    /\ fn = FnIdle
    /\ cam \in {[CamIdle EXCEPT !.mode = m] : m \in CameraModes}

CamOnly == UNCHANGED <<taskVars, sessVars, histVars, envVars, send_landmarks, sel, fn>>

\* ClientSession._handle_client_frame, lines 1102-1132, for a command whose jpeg_base64
\* decodes (decodable) or is empty or undecodable
HandleClientFrame(decodable) ==
    /\ cam.commands < MaxClientFrames
    /\ cam' = IF AcceptsClientFrame(cam.mode) /\ decodable
                THEN [cam EXCEPT !.commands = @ + 1,
                                 !.latest_client_frame = cam.commands + 1,
                                 !.latest_client_frame_at_monotonic = cam.now,
                                 !.client_source_announced = TRUE,
                                 !.newest = cam.commands + 1,
                                 !.newest_at = cam.now]
              ELSE IF decodable
                THEN [cam EXCEPT !.commands = @ + 1,
                                 !.newest = cam.commands + 1,
                                 !.newest_at = cam.now]
              ELSE [cam EXCEPT !.commands = @ + 1]
    /\ CamOnly

\* run, line 928: the tick reads its frame
ReadFrame ==
    /\ cam.reads < MaxFrameReads
    /\ \E f \in _read_effective_frame(cam) :
          cam' = [cam EXCEPT !.reads = @ + 1, !.read = f]
    /\ CamOnly

\* time.monotonic() moves on
CamAdvance ==
    /\ cam.now < MaxCamClock
    /\ cam' = [cam EXCEPT !.now = @ + 1]
    /\ CamOnly

CamNext ==
    \/ \E decodable \in BOOLEAN : HandleClientFrame(decodable)
    \/ ReadFrame
    \/ CamAdvance

CamSpec == CamInit /\ [][CamNext]_vars

-----------------------------------------------------------------------------
(* FeedbackGenerator.  A text is the sequence of its lines; a score is given *)
(* in hundredths of a point.  The remote service is an input: what the       *)
(* request meets (an error of the transport, a body that is no JSON, a body  *)
(* without choices) or the content the service answers with.                 *)

\* a blank line of a text, a blank character of a key
Blank == [kind |-> "blank"]

\* str.strip(): what is blank at either end goes
RECURSIVE Strip(_)
Strip(text) ==
    IF text = <<>> THEN <<>>
    ELSE IF Head(text) = Blank THEN Strip(Tail(text))
    ELSE IF Last(text) = Blank THEN Strip(SubSeq(text, 1, Len(text) - 1))
    ELSE text

\* f"{score:.1f}": the score in tenths, rounded to nearest
FormatTenths(value) == (value + 5) \div 10

\* lines 843-848: the remark chosen by the score
ScoreBand(value) ==
    IF value >= 8500 THEN "stable"
    ELSE IF value >= 7000 THEN "close"
    ELSE "far"

\* line 842: the first line of the local text
ScoreLine(value, mode) == [kind |-> "score", tenths |-> FormatTenths(value), mode |-> mode]

\* FeedbackGenerator._build_local_feedback, lines 823-865: the score line, the remark, the
\* worst angles (at most 3, with a heading, when there are any), the guide (a heading and 5
\* lines), the routine (a heading and 2 lines)
_build_local_feedback(metrics) ==
    LET worst == Min(3, metrics.angle_diffs)
    IN  <<ScoreLine(metrics.score, metrics.mode), [kind |-> "remark", band |-> ScoreBand(metrics.score)]>>
        \o (IF worst > 0
              THEN <<[kind |-> "worst_heading"]>> \o [i \in 1..worst |-> [kind |-> "worst", rank |-> i]]
              ELSE <<>>)
        \o <<[kind |-> "guide_heading"]>> \o [i \in 1..5 |-> [kind |-> "guide", item |-> i]]
        \o <<[kind |-> "routine_heading"]>> \o [i \in 1..2 |-> [kind |-> "routine", item |-> i]]

\* what a remote request can meet
RemoteOutcomes ==
    { [kind |-> "http_error"], [kind |-> "url_error"], [kind |-> "timeout"],
      [kind |-> "bad_json"], [kind |-> "no_choices"],
      [kind |-> "content", content |-> <<>>],
      [kind |-> "content", content |-> <<Blank, Blank>>],
      [kind |-> "content", content |-> <<Blank, [kind |-> "advice"], Blank>>],
      [kind |-> "content", content |-> <<[kind |-> "summary"], Blank, [kind |-> "routine"]>>] }

\* FeedbackGenerator._request_openai, lines 795-820: the text, or the exception raised
\* ("": none): HTTPError and URLError are re-raised as RuntimeError, a timeout of the
\* socket and a body that is no JSON raise their own
_request_openai(remote) ==
    IF remote.kind \in {"http_error", "url_error", "no_choices"}
      THEN [raised |-> "RuntimeError", text |-> <<>>]
    ELSE IF remote.kind = "timeout" THEN [raised |-> "TimeoutError", text |-> <<>>]
    ELSE IF remote.kind = "bad_json" THEN [raised |-> "JSONDecodeError", text |-> <<>>]
    ELSE IF Strip(remote.content) = <<>> THEN [raised |-> "RuntimeError", text |-> <<>>]
    ELSE [raised |-> "", text |-> Strip(remote.content)]

\* line 730: except Exception
Caught_RuntimeErrorOnly(exc) == exc = "RuntimeError"
Caught(exc) == exc \in {"RuntimeError", "TimeoutError", "JSONDecodeError"}

\* line 721: the remote service is asked
AsksRemote(enabled, api_key) == enabled /\ Strip(api_key) # <<>>

RemoteModel == "remote-model"

\* FeedbackGenerator.generate, lines 713-733
generate(enabled, api_key, remote, metrics) ==
    LET local == [raised |-> FALSE, text |-> _build_local_feedback(metrics),
                  model |-> "local-fallback"]
        answer == _request_openai(remote)
    IN  IF ~AsksRemote(enabled, api_key) THEN local
        ELSE IF answer.raised = ""
          THEN [raised |-> FALSE, text |-> answer.text, model |-> RemoteModel]
        ELSE IF Caught(answer.raised) THEN local
        ELSE [raised |-> TRUE, text |-> <<>>, model |-> ""]

\* _finish_session, lines 1198-1217: the feedback fields of the result message; an
\* exception out of generate leaves _finish_session before the message is written
FeedbackPayload(fb) ==
    IF fb.raised THEN [type |-> "none", feedback |-> <<>>, feedback_model |-> ""]
    ELSE [type |-> "result", feedback |-> fb.text, feedback_model |-> fb.model]

\* the metrics handed to generate: score in hundredths, mode, number of finite angle diffs
FeedbackMetrics ==
    {[score |-> s, mode |-> m, angle_diffs |-> n] :
        s \in {0, 6994, 7000, 8444, 8496, 10000}, m \in {"NORMAL", "MIRROR"}, n \in {0, 2, 5}}

\* OPENAI_API_KEY: unset, blank, set
ApiKeys == {<<>>, <<Blank>>, <<[kind |-> "key"]>>}

FeedbackInit ==
    /\ Detached
    /\ cam = CamIdle
    /\ fn \in {Call("generate", [enabled |-> e, api_key |-> k, remote |-> r, metrics |-> m]) :
                  e \in BOOLEAN, k \in ApiKeys, r \in RemoteOutcomes, m \in FeedbackMetrics}

\* one call of generate, and the result message built from what it returns
Generate ==
    /\ fn.op = "generate" /\ fn.phase = "input"
    /\ LET fb == generate(fn.input.enabled, fn.input.api_key, fn.input.remote, fn.input.metrics)
       IN  fn' = Return([raised |-> fb.raised, text |-> fb.text, model |-> fb.model,
                          msg |-> FeedbackPayload(fb)])
    /\ UNCHANGED <<taskVars, sessVars, histVars, envVars, send_landmarks, sel, cam>>

FeedbackNext == Generate

FeedbackSpec == FeedbackInit /\ [][FeedbackNext]_vars

-----------------------------------------------------------------------------
(* The lightweight streamer (ai_box_server/server.py): one inference of its  *)
(* tick.  The input is whether the detector could be built (mediapipe was    *)
(* imported), what the frame shows, and the wall clock, which the synthetic  *)
(* landmarks are a function of.                                              *)

\* what FrameProvider.read can hand to detect (server.py, lines 93-98)
StreamFrames == {"placeholder", "empty_scene", "person_near", "person_far"}

\* pose.process(rgb).pose_landmarks is None (server.py, line 54)
NoPoseFound(frame) == frame \in {"placeholder", "empty_scene"}

\* PoseEstimator._synthetic_landmarks, server.py lines 69-82: 33 points on a curve fixed by t
_synthetic_landmarks(t) == [synthetic |-> TRUE, keypoints |-> 33, of |-> "clock", t |-> t]

\* PoseEstimator.detect, server.py lines 48-67
detect(has_pose_model, frame, t) ==
    IF ~has_pose_model THEN _synthetic_landmarks(t)
    ELSE IF NoPoseFound(frame) THEN _synthetic_landmarks(t)
    ELSE [synthetic |-> FALSE, keypoints |-> 33, of |-> frame, t |-> 0]

StreamInit ==
    /\ Detached
    /\ cam = CamIdle
    /\ fn \in {Call("detect", [has_pose_model |-> d, frame |-> f, t |-> t]) :
                  d \in BOOLEAN, f \in StreamFrames, t \in 0..MaxStreamClock}

\* ClientSession._next_inference and the landmarks message of the tick, server.py lines
\* 157-166 and 203-206
NextInference ==
    /\ fn.op = "detect" /\ fn.phase = "input"
    /\ LET landmarks == detect(fn.input.has_pose_model, fn.input.frame, fn.input.t)
       IN  fn' = Return([landmarks |-> landmarks,
                         msg |-> [type |-> "landmarks", keypoints |-> landmarks.keypoints]])
    /\ UNCHANGED <<taskVars, sessVars, histVars, envVars, send_landmarks, sel, cam>>

StreamNext == NextInference

StreamSpec == StreamInit /\ [][StreamNext]_vars

-----------------------------------------------------------------------------
(* kalman_rts_smooth_1d: the forward pass over one axis of one joint, one     *)
(* iteration of its loop per step.  A measurement is the pair of z[k] and     *)
(* w[k], reduced to whether z[k] is finite, whether w[k] reaches min_w, and   *)
(* the value of z[k].  The filter's arithmetic is not modelled: of the        *)
(* predicted state it is kept whether the step re-initialised it, and to      *)
(* which value.  The backward pass reads x_p, p_p, x_f and p_f only.          *)

Measurement(z_finite, w_ok, z) == [z_finite |-> z_finite, w_ok |-> w_ok, z |-> z]

\* line 1487: meas_ok = wk >= min_w and np.isfinite(zk)
meas_ok(m) == m.w_ok /\ m.z_finite

\* postprocess_best_from_sequence, line 1314: reset_gap_frames of a session
reset_gap_frames(fps) == Max(2, Max(fps, 1) \div 2)

\* line 1490: the gap is long enough for a reset
GapReached_Later(gap, reset_gap) == gap > reset_gap
GapReached(gap, reset_gap) == gap >= reset_gap

\* the measurements the pass is exercised on: two values, low confidence, NaN
Measurements ==
    { Measurement(TRUE, TRUE, 0), Measurement(TRUE, TRUE, 1),
      Measurement(TRUE, FALSE, 0), Measurement(FALSE, TRUE, 0) }

KalmanFps == {1, 5, 6}

KalmanInit ==
    /\ Detached
    /\ cam = CamIdle
    /\ fn \in {Call("kalman", [z |-> z, fps |-> f]) :
                  z \in UNION {[1..n -> Measurements] : n \in 0..MaxKalmanFrames}, f \in KalmanFps}

FnOnly == UNCHANGED <<taskVars, sessVars, histVars, envVars, send_landmarks, sel, cam>>

\* lines 1436-1467: an empty sequence or one without a valid measurement is returned as it
\* is; otherwise the pass starts with gap = 0
KalmanEnter ==
    /\ fn.op = "kalman" /\ fn.phase = "input"
    /\ IF \A k \in DOMAIN fn.input.z : ~meas_ok(fn.input.z[k])
         THEN fn' = Return([smoothed |-> FALSE])
         ELSE fn' = [fn EXCEPT !.phase = "forward"] @@
                    [k |-> 1, gap |-> 0, reset_gap |-> reset_gap_frames(fn.input.fps),
                     x_pred |-> <<>>, gaps |-> <<>>]
    /\ FnOnly

\* lines 1469-1510: iteration k of the forward pass; after the last one the backward pass
\* runs and the function returns
KalmanForward ==
    /\ fn.op = "kalman" /\ fn.phase = "forward"
    /\ LET m == fn.input.z[fn.k]
           reset == meas_ok(m) /\ GapReached(fn.gap, fn.reset_gap)
           gap == IF meas_ok(m) THEN 0 ELSE fn.gap + 1
           x_pred == Append(fn.x_pred, IF reset THEN [reset |-> TRUE, z |-> m.z]
                                                 ELSE [reset |-> FALSE, z |-> 0])
       IN  fn' = [fn EXCEPT !.phase = IF fn.k = Len(fn.input.z) THEN "done" ELSE "forward",
                            !.k = @ + 1, !.gap = gap, !.x_pred = x_pred,
                            !.gaps = Append(@, gap)]
    /\ FnOnly

KalmanNext ==
    \/ KalmanEnter
    \/ KalmanForward

KalmanSpec == KalmanInit /\ [][KalmanNext]_vars

-----------------------------------------------------------------------------
(* FrameProvider on its own: construction, read and the monotonic clock in   *)
(* whole seconds.  Whether a source opens and whether an opened capture      *)
(* delivers a frame is the camera's choice.  opens is the history of the     *)
(* clock readings at which _open_capture ran.                                *)

\* FrameProvider.__init__, lines 404-411, at clock reading t, the source opening or not
FrameProviderNew(t, opened) ==
    [op |-> "FrameProvider", phase |-> "ready", now |-> t, capture |-> opened,
     last_reopen_attempt |-> 0, opens |-> <<t>>,
     last_read |-> [age |-> 0, reopened |-> FALSE, frame |-> "none"]]

\* line 420: a reopen is due
ReopenDue(age_sec) == age_sec >= reopen_interval_sec

ProviderInit ==
    /\ Detached
    /\ cam = CamIdle
    /\ fn \in {FrameProviderNew(t, opened) : t \in 0..MaxStartClock, opened \in BOOLEAN}

\* FrameProvider.read, lines 413-428: first_ok, the opened capture delivers a frame at
\* once; reopens, a due reopen finds a source; second_ok, the capture delivers after that
ProviderRead ==
    /\ fn.op = "FrameProvider"
    /\ \E first_ok, reopens, second_ok \in BOOLEAN :
          LET age == fn.now - fn.last_reopen_attempt
              due == ReopenDue(age)
              capture == IF due THEN reopens ELSE fn.capture
          IN  IF fn.capture /\ first_ok
                THEN fn' = [fn EXCEPT !.last_read = [age |-> age, reopened |-> FALSE,
                                                     frame |-> "capture"]]
                ELSE fn' = [fn EXCEPT !.capture = capture,
                                      !.last_reopen_attempt = IF due THEN fn.now ELSE @,
                                      !.opens = IF due THEN Append(@, fn.now) ELSE @,
                                      !.last_read = [age |-> age, reopened |-> due,
                                                     frame |-> IF capture /\ second_ok
                                                                 THEN "capture"
                                                                 ELSE "placeholder"]]
    /\ FnOnly

\* time.monotonic() moves on
ProviderAdvance ==
    /\ fn.op = "FrameProvider"
    /\ fn.now < MaxStartClock + MaxProviderClock
    /\ fn' = [fn EXCEPT !.now = @ + 1]
    /\ FnOnly

ProviderNext ==
    \/ ProviderRead
    \/ ProviderAdvance

ProviderSpec == ProviderInit /\ [][ProviderNext]_vars

-----------------------------------------------------------------------------
(* Inbound lines: _handle_client_command applied to whatever a peer sends. *)

MaxLines == 2

\* a field of a command as json.loads yields it; "absent" is a key that is not there
JsonValue(kind, val, chars) == [kind |-> kind, val |-> val, chars |-> chars]
Absent == JsonValue("absent", 0, <<>>)
JNull == JsonValue("null", 0, <<>>)
JInt(v) == JsonValue("int", v, <<>>)
JStr(cs) == JsonValue("str", 0, cs)
JList(n) == JsonValue("list", n, <<>>)

\* payload.get(key, default)
Get(v, default) == IF v.kind = "absent" THEN default ELSE v

\* the truth value Python's `or` tests, line 1158
Truthy(v) ==
    CASE v.kind = "int" -> v.val # 0
      [] v.kind = "str" -> v.chars # <<>>
      [] v.kind = "list" -> v.val # 0
      [] OTHER -> FALSE

Digit == ("0" :> 0) @@ ("1" :> 1) @@ ("2" :> 2) @@ ("5" :> 5) @@ ("7" :> 7)

RECURSIVE DigitsValue(_)
DigitsValue(cs) ==
    IF cs = <<>> THEN 0
    ELSE 10 * DigitsValue(SubSeq(cs, 1, Len(cs) - 1)) + Digit[cs[Len(cs)]]

Raised(exc) == [exc |-> exc, val |-> 0]
Converted(v) == [exc |-> "none", val |-> v]

\* Python's int(v): the integer, or the exception it raises
int(v) ==
    CASE v.kind = "int" -> Converted(v.val)
      [] v.kind = "str" ->
            LET neg == v.chars # <<>> /\ Head(v.chars) = "-"
                ds == IF neg THEN Tail(v.chars) ELSE v.chars
            IN  IF ds # <<>> /\ \A i \in DOMAIN ds : ds[i] \in DOMAIN Digit
                  THEN Converted(IF neg THEN 0 - DigitsValue(ds) ELSE DigitsValue(ds))
                  ELSE Raised("ValueError")
      [] OTHER -> Raised("TypeError")

\* _start_session, lines 1158-1159: the duration of the session, or the exception raised
duration_sec(countdown_sec) ==
    LET given == Get(countdown_sec, JInt(SessionSeconds))
        conv == int(IF Truthy(given) THEN given ELSE JInt(SessionSeconds))
    IN  IF conv.exc # "none" THEN conv
        ELSE Converted(Max(MinSessionSeconds, Min(MaxSessionSeconds, conv.val)))

\* _handle_client_frame, lines 1114-1118: int() in a try, 0 on any exception
rotation_degrees(rotation_raw) ==
    LET conv == int(Get(rotation_raw, JInt(0)))
    IN  IF conv.exc # "none" THEN 0 ELSE conv.val

\* run(), line 992: the exceptions the session loop catches
Disconnects == {"ConnectionResetError", "BrokenPipeError", "IncompleteReadError"}

\* run(), lines 919-998: the task after a handler raised exc ("none": it returned)
TaskAfter(exc) ==
    IF exc = "none" THEN "running" ELSE IF exc \in Disconnects THEN "closed" ELSE "failed"

Line(kind, type, image, field) == [kind |-> kind, type |-> type, image |-> image, field |-> field]

FieldValues ==
    {Absent, JNull, JInt(0), JInt(2), JList(0), JList(1)}
    \cup {JStr(cs) : cs \in {<<>>, <<"7">>, <<"-", "1">>, <<"a", "b", "c">>, <<"2", ".", "5">>}}

Lines ==
    {Line("invalid_json", "", "", Absent), Line("non_object", "", "", Absent)}
    \cup {Line("object", t, "", Absent) : t \in {"hello", "ping", "stop_session", "bogus"}}
    \cup {Line("object", "client_frame", "ok", v) : v \in FieldValues}
    \cup {Line("object", "start_session", img, v) : img \in {"ok", "undecodable"}, v \in FieldValues}

\* a connection of camera mode "client" that has read no line yet
ConnectionNew == [op |-> "commands", task |-> "running", exc |-> "none", lines |-> <<>>, replies |-> <<>>, active |-> FALSE, duration |-> 0, announced |-> FALSE, rotation |-> 0]

\* what handling a line leaves: the reply written ("none": nothing), the exception raised
Handled(l, reply, exc) == [fn EXCEPT !.lines = Append(@, l), !.replies = Append(@, reply), !.exc = exc, !.task = TaskAfter(exc)]

\* _handle_client_command, lines 1050-1100, with _handle_client_frame and _start_session
_handle_client_command(l) ==
    CASE l.kind = "invalid_json" -> Handled(l, "status:warning", "none")
      [] l.kind = "non_object" -> Handled(l, "none", "none")
      [] l.type = "hello" -> Handled(l, "status:info", "none")
      [] l.type = "ping" -> Handled(l, "pong", "none")
      [] l.type = "stop_session" ->
            [Handled(l, "session_stopped", "none") EXCEPT !.active = FALSE, !.duration = 0]
      [] l.type = "start_session" ->
            IF ImageUndecodable(l.image) THEN Handled(l, "error", "none")
            ELSE LET d == duration_sec(l.field)
                 IN  IF d.exc # "none" THEN Handled(l, "none", d.exc)
                     ELSE [Handled(l, "session_started", "none") EXCEPT !.active = TRUE, !.duration = d.val]
      [] l.type = "client_frame" ->
            [Handled(l, IF fn.announced THEN "none" ELSE "status:info", "none") EXCEPT !.announced = TRUE, !.rotation = rotation_degrees(l.field) % 360]
      [] OTHER -> Handled(l, "status:warning", "none")

CommandInit ==
    /\ Detached
    /\ cam = CamIdle
    /\ fn = ConnectionNew

\* _consume_commands_non_blocking, lines 1028-1048: one line read and handled
ReadLine ==
    /\ fn.op = "commands"
    /\ fn.task = "running"
    /\ Len(fn.lines) < MaxLines
    /\ \E l \in Lines : fn' = _handle_client_command(l)
    /\ FnOnly

CommandNext == ReadLine

CommandSpec == CommandInit /\ [][CommandNext]_vars

-----------------------------------------------------------------------------
(* swap_left_right and mirror_and_swap_points.  Arrays are objects of a heap *)
(* (a sequence of arrays, a reference is a position in it), so that a write  *)
(* through one reference is seen through every other reference to the same  *)
(* array; an array maps the landmark indices 0..32 to its rows, a row being  *)
(* a tuple: one number for a visibility array, (x, y, z) for points.         *)

MaxStride == 2

Landmarks == 0..32

LEFT_RIGHT_SWAP_PAIRS == <<<<1, 4>>, <<2, 5>>, <<3, 6>>, <<7, 8>>, <<9, 10>>, <<11, 12>>, <<13, 14>>, <<15, 16>>, <<17, 18>>, <<19, 20>>, <<21, 22>>, <<23, 24>>, <<25, 26>>, <<27, 28>>, <<29, 30>>, <<31, 32>>>>

\* ndarray.copy(), lines 1667 and 1674: the reference of the array it returns
CopyRef_Alias(heap, ref) == ref
CopyRef(heap, ref) == Len(heap) + 1

\* the heap after `new = old.copy()`
Copied(heap, ref) == IF CopyRef(heap, ref) > Len(heap) THEN Append(heap, heap[ref]) ELSE heap

\* line 1675: mirrored[:, 0] *= -1.0
Negated(heap, ref) ==
    LET a == heap[ref]
    IN  [heap EXCEPT ![ref] = [i \in Landmarks |-> <<0 - a[i][1], a[i][2], a[i][3]>>]]

\* visibility-like arrays of 33 numbers, the array of 33 distinct labels among them
ValueArrays ==
    {[i \in Landmarks |-> <<(a * i + b) % m>>] : a \in 1..MaxStride, b \in 0..1, m \in {2, 7, 33}}

\* arrays of 33 points (x, y, z), x of either sign
PointArrays == {[i \in Landmarks |-> <<v[i][1] - 3, i % 2, v[32 - i][1]>>] : v \in ValueArrays}

\* a call of op on this array, to be followed by a call of op on what it returns
SwapCallOf(op, array) == [op |-> op, phase |-> "input", input |-> array, heap |-> <<array>>, arg |-> 1, values |-> 1, out |-> 1, k |-> 0, round |-> 1, results |-> <<>>]

SwapInit ==
    /\ Detached
    /\ cam = CamIdle
    /\ fn \in {SwapCallOf("swap_left_right", v) : v \in ValueArrays}
            \cup {SwapCallOf("mirror_and_swap_points", p) : p \in PointArrays}

\* lines 1673-1676 and 1666-1667: mirror_and_swap_points copies its argument, negates x in
\* the copy and passes it on; swap_left_right copies its argument into out
SwapCall ==
    /\ fn.op \in {"swap_left_right", "mirror_and_swap_points"}
    /\ fn.phase = "input"
    /\ LET mirrors == fn.op = "mirror_and_swap_points"
           values == IF mirrors THEN CopyRef(fn.heap, fn.arg) ELSE fn.arg
           h1 == IF mirrors THEN Negated(Copied(fn.heap, fn.arg), values) ELSE fn.heap
       IN  fn' = [fn EXCEPT !.phase = "loop", !.heap = Copied(h1, values), !.values = values,
                            !.out = CopyRef(h1, values), !.k = 1]
    /\ FnOnly

\* lines 1668-1670: one pair of the loop, its two assignments in order
SwapPair ==
    /\ fn.op \in {"swap_left_right", "mirror_and_swap_points"}
    /\ fn.phase = "loop"
    /\ fn.k <= Len(LEFT_RIGHT_SWAP_PAIRS)
    /\ LET left_idx == LEFT_RIGHT_SWAP_PAIRS[fn.k][1]
           right_idx == LEFT_RIGHT_SWAP_PAIRS[fn.k][2]
           h1 == [fn.heap EXCEPT ![fn.out][left_idx] = fn.heap[fn.values][right_idx]]
           h2 == [h1 EXCEPT ![fn.out][right_idx] = h1[fn.values][left_idx]]
       IN  fn' = [fn EXCEPT !.heap = h2, !.k = fn.k + 1]
    /\ FnOnly

\* line 1671: return out; the function is then applied to what it returned
SwapReturn ==
    /\ fn.op \in {"swap_left_right", "mirror_and_swap_points"}
    /\ fn.phase = "loop"
    /\ fn.k > Len(LEFT_RIGHT_SWAP_PAIRS)
    /\ fn' = [fn EXCEPT !.results = Append(@, fn.out), !.arg = fn.out,
                        !.round = IF fn.round = 1 THEN 2 ELSE @,
                        !.phase = IF fn.round = 1 THEN "input" ELSE "done"]
    /\ FnOnly

SwapNext ==
    \/ SwapCall
    \/ SwapPair
    \/ SwapReturn

SwapSpec == SwapInit /\ [][SwapNext]_vars

-----------------------------------------------------------------------------
(* Properties *)

Sessions == 1..MaxCmds

\* positions in the tick's log of the messages of type t
Idx(t) == {i \in DOMAIN out : out[i].type = t}

\* this step is the task reading command c and handling it without the write failing
HandledCmd(c) ==
    /\ pc \in {"drain1", "drain2"}
    /\ inbox # <<>>
    /\ c = Head(inbox)
    /\ inbox' = Tail(inbox)
    /\ pc' # "closed"

\* C1: while a session is active its three buffers have one length, the number of ticks
\* that read the session as active; such a tick appends one entry to each of the three,
\* and no other step of a running session changes them.
C1_AppendStep ==
    (active /\ active' /\ sid' = sid) =>
        \/ UNCHANGED <<frames, poses, ts, observed>>
        \/ /\ pc = "drain1" /\ pc' = "drain2"
           /\ observed' = observed + 1
           /\ Len(frames') = Len(frames) + 1
           /\ Len(poses') = Len(poses) + 1
           /\ Len(ts') = Len(ts) + 1

C1_BuffersInStep ==
    /\ [](active => Len(frames) = observed /\ Len(poses) = observed /\ Len(ts) = observed)
    /\ [][C1_AppendStep]_vars

C1_Witness == active /\ Len(frames) = 2 /\ observed = 2 /\ "none" \in {poses[i] : i \in DOMAIN poses}

\* C2: a session finished at its deadline on an open connection has exactly one result
\* message; no session has more than one; once it is written the session is gone and
\* every other message of that session in the tick's log precedes it; finish without a
\* session writes nothing.
C2_SingleFinalResult ==
    /\ \A s \in Sessions :
        /\ nresults[s] <= 1
        /\ fate[s] = "finished" => nresults[s] = 1
        /\ nresults[s] = 1 => ~(active /\ sid = s)
        /\ nresults[s] = 1 =>
             \A i \in DOMAIN out :
                 out[i].sid = s =>
                     \/ out[i].type = "result"
                     \/ \E j \in DOMAIN out :
                            j > i /\ out[j].type = "result" /\ out[j].sid = s
    /\ ~active => FinishMessages = <<>>

C2_Witness ==
    /\ pc = "sleep"
    /\ conn = "open"
    /\ sid = 1
    /\ nresults[1] = 1
    /\ Idx("session_progress") # {}
    /\ Last(out).type = "result"

\* C3: stop_session on an active session leaves the connection idle and writes
\* session_stopped; a stopped session never gets a result message.
C3_StopStep ==
    \A c \in Commands :
        (HandledCmd(c) /\ c.type = "stop_session" /\ active) =>
            /\ ~active'
            /\ out' = Append(out, Msg("session_stopped", sid, 0, ""))

C3_StopNoResult ==
    /\ [](\A s \in Sessions : fate[s] = "stopped" => nresults[s] = 0 /\ ~(active /\ sid = s))
    /\ [][C3_StopStep]_vars

C3_Witness ==
    /\ fate[1] = "stopped"
    /\ ~active
    /\ pc = "sleep"
    /\ now >= 2
    /\ conn = "open"

\* C4: a start_session whose image is missing or undecodable, or shows no pose, writes
\* exactly one error message and nothing else, and leaves the session state as it was.
C4_BadStartStep ==
    \A c \in Commands :
        (HandledCmd(c) /\ c.type = "start_session" /\ c.image \in {"missing", "undecodable", "nopose"}) =>
            /\ out' = Append(out, Msg("error", 0, 0, c.image))
            /\ UNCHANGED <<active, sid, started_at, deadline_at, frames, poses, ts>>
            /\ pc' = pc

C5_ClaimedDuration(cd) ==
    IF cd.has THEN Max(1, Min(15, cd.val)) ELSE SessionSeconds

C5_DeadlineIsClampedCountdown ==
    active => deadline_at - started_at = C5_ClaimedDuration(req)

\* C6: an active session on a connection that stays open, with no stop_session and no
\* replacing start_session, eventually gets its result; the deadline test that reads
\* now >= deadline_at ends the session in that very tick and writes the result.
C6_DeadlineStep ==
    (pc = "drain2" /\ pc' = "sleep" /\ active /\ now >= deadline_at) =>
        /\ ~active'
        /\ out' = Append(out, Msg("result", sid, Len(frames), ResultReason(frames, poses)))

C6_Ended(s) == fate[s] \in {"stopped", "replaced", "dropped"}

C6_DeadlineFinishes ==
    /\ \A s \in Sessions : (active /\ sid = s) ~> (nresults[s] = 1 \/ C6_Ended(s))
    /\ [][C6_DeadlineStep]_vars

C6_Witness ==
    /\ nresults[1] = 1
    /\ conn = "open"
    /\ sent = 1
    /\ pc = "sleep"
    /\ Last(out).type = "result"
    /\ Last(out).num >= SessionSeconds

\* C7: a session that was active when the server read end-of-stream gets no result.
C7_NoResultAfterDisconnect ==
    \A s \in eof_seen : nresults[s] = 0

\* C8: in every tick the log holds at most one session_progress, frame, landmarks and
\* result; session_progress only on a tick that read the session as active, and before
\* the frame; no frame before the first drain has returned and exactly one after it;
\* landmarks only with send_landmarks, and after the frame; a result after all three.
C8_TickOrder ==
    pc \in {"drain1", "drain2", "sleep"} =>
        /\ \A t \in {"session_progress", "frame", "landmarks", "result"} :
               Cardinality(Idx(t)) <= 1
        /\ Cardinality(Idx("frame")) = IF pc = "drain1" THEN 0 ELSE 1
        /\ Idx("session_progress") # {} => session_active
        /\ Idx("landmarks") # {} => send_landmarks
        /\ Idx("frame") # {} => (send_landmarks <=> Idx("landmarks") # {})
        /\ \A i \in Idx("session_progress") : \A j \in Idx("frame") : i < j
        /\ \A i \in Idx("frame") : \A j \in Idx("landmarks") : i < j
        /\ \A r \in Idx("result") :
               \A i \in Idx("session_progress") \cup Idx("frame") \cup Idx("landmarks") : i < r

C8_Witness ==
    /\ pc = "sleep"
    /\ \A t \in {"session_progress", "frame", "landmarks", "result"} : Idx(t) # {}

\* C9: an object whose type is none of the five known ones gets exactly one status
\* message of level warning; the session state is untouched and the drain goes on.
C9_UnknownStep ==
    \A c \in Commands :
        (HandledCmd(c) /\ c.type \notin KnownTypes) =>
            /\ out' = Append(out, Msg("status", 0, 0, "warning"))
            /\ UNCHANGED <<active, sid, started_at, deadline_at, frames, poses, ts>>
            /\ pc' = pc

C9_UnknownTypeWarns == [][C9_UnknownStep]_vars

C9_Witness ==
    /\ out # <<>>
    /\ Last(out) = Msg("status", 0, 0, "warning")
    /\ active
    /\ frames # <<>>
    /\ pc = "drain2"

\* C10: the selector returns no pick exactly when fewer than 3 frames have a finite
\* score and are reliable; in particular when no frame is reliable.
C10_ValidCount == Cardinality({i \in DOMAIN sel.input : sel.input[i].score.fin /\ sel.input[i].reliable})

C10_NoPickIffFewValid ==
    sel.phase = "done" =>
        /\ (sel.result = NoPick) <=> (C10_ValidCount < 3)
        /\ sel.result # NoPick => sel.result.pick \in DOMAIN sel.input
        /\ (\A i \in DOMAIN sel.input : ~sel.input[i].reliable) => sel.result = NoPick

C10_Witness ==
    /\ sel.phase = "done"
    /\ sel.result = NoPick
    /\ Len(sel.input) = MaxFrames
    /\ C10_ValidCount = 2
    /\ \E i \in DOMAIN sel.input : sel.input[i].reliable /\ ~sel.input[i].score.fin
    /\ \E i \in DOMAIN sel.input : ~sel.input[i].reliable /\ sel.input[i].score.fin

\* C11: when the selector yields no pick, or nothing was buffered, finish still builds a
\* result: best_score 0, no best frame, no landmarks, metrics.reliable false and a
\* non-empty metrics.reason.
C11_NoPickResult ==
    (Returned("postprocess") /\ (fn.input = <<>> \/ fn.result.post.picked = NoPick)) =>
        /\ fn.result.msg.type = "result"
        /\ fn.result.msg.best_score = 0
        /\ fn.result.msg.best_frame = 0
        /\ fn.result.msg.landmarks = 0
        /\ ~fn.result.msg.reliable
        /\ fn.result.msg.reason # ""

C11_Witness ==
    /\ Returned("postprocess")
    /\ Len(fn.input) = MaxPostFrames
    /\ fn.result.post.picked = NoPick
    /\ fn.result.msg.reason = NoPickReason
    /\ Cardinality({i \in DOMAIN fn.input : fn.input[i].reliable}) = 2

\* C12: PoseScorer.score returns the mirrored candidate, with mirror_used set, exactly when
\* its final is strictly higher than the normal one, or only the mirrored final exists, or
\* neither exists and the mirrored candidate matched strictly more joints; in every other
\* case, ties included, it returns the normal candidate with mirror_used unset.
C12_MirrorWins ==
    \/ /\ fn.result.normal.final.some /\ fn.result.mirrored.final.some
       /\ fn.result.mirrored.final.val > fn.result.normal.final.val
    \/ ~fn.result.normal.final.some /\ fn.result.mirrored.final.some
    \/ /\ ~fn.result.normal.final.some /\ ~fn.result.mirrored.final.some
       /\ fn.result.mirrored.matched_joints > fn.result.normal.matched_joints

C12_MirrorChoice ==
    Returned("score") =>
        IF C12_MirrorWins
          THEN fn.result.chosen = [fn.result.mirrored EXCEPT !.mirror_used = TRUE]
          ELSE fn.result.chosen = fn.result.normal /\ ~fn.result.chosen.mirror_used

\* a tie of two reliable candidates: the normal one is returned
C12_Witness ==
    /\ Returned("score")
    /\ fn.result.normal.final.some /\ fn.result.mirrored.final.some
    /\ fn.result.normal.final.val = fn.result.mirrored.final.val
    /\ fn.input.normal # fn.input.mirrored
    /\ ~fn.result.chosen.mirror_used

\* the floors of the scorer, on what was measured for a candidate
C13_Floors(m) ==
    /\ m.joints >= 6
    /\ m.err_finite
    /\ m.angles >= 2
    /\ m.bones >= 3

C13_Exposed(r) == r.coord_score.some /\ r.angle_score.some /\ r.bone_score.some

C13_Hidden(r) == ~r.coord_score.some /\ ~r.angle_score.some /\ ~r.bone_score.some

\* what holds of every candidate whatever floor fails
C13_Common(m, r) ==
    /\ r.reliable <=> r.final.some
    /\ r.final.some <=> C13_Floors(m)
    /\ m.joints < 6 => r.reason = "Too few reliable joints." /\ C13_Hidden(r)
    /\ r.final.some => r.final.val >= 0 /\ r.final.val <= 100

C13_Sides == {"normal", "mirrored"}

\* C13 as stated: every ScoreResult is reliable iff its final is set iff all floors are met
\* (6 joints, finite alignment error, 2 angles, 3 bones); a failed joint floor gives "Too few
\* reliable joints." and no sub-score; a failure of only the angle or bone floor gives "Pose
\* not reliable." with all sub-scores exposed; a final lies in [0,100].
C13_FloorsAsStated ==
    Returned("score") =>
        \A s \in C13_Sides :
            /\ C13_Common(fn.input[s], fn.result[s])
            /\ (fn.input[s].joints >= 6 /\ fn.input[s].err_finite /\ ~C13_Floors(fn.input[s])) =>
                   fn.result[s].reason = "Pose not reliable." /\ C13_Exposed(fn.result[s])

\* C13, amended: as stated, but "Pose not reliable." with all sub-scores exposed is the
\* outcome only when at least one angle and one bone were usable; with no usable angle or no
\* usable bone the reason is "Insufficient reliable angles or bones.", coord_score is exposed
\* and the sub-score that could not be computed is null.
C13_FloorsAndReasons ==
    Returned("score") =>
        /\ fn.result.chosen.reliable <=> fn.result.chosen.final.some
        /\ \A s \in C13_Sides :
            /\ C13_Common(fn.input[s], fn.result[s])
            /\ (/\ fn.input[s].joints >= 6 /\ fn.input[s].err_finite /\ ~C13_Floors(fn.input[s])
                /\ fn.input[s].angles >= 1 /\ fn.input[s].bones >= 1) =>
                   fn.result[s].reason = "Pose not reliable." /\ C13_Exposed(fn.result[s])
            /\ (/\ fn.input[s].joints >= 6 /\ fn.input[s].err_finite
                /\ (fn.input[s].angles = 0 \/ fn.input[s].bones = 0)) =>
                   /\ fn.result[s].reason = "Insufficient reliable angles or bones."
                   /\ fn.result[s].coord_score.some
                   /\ fn.result[s].angle_score.some <=> fn.input[s].angles >= 1
                   /\ fn.result[s].bone_score.some <=> fn.input[s].bones >= 1

\* one candidate below the angle floor with its sub-scores exposed, the other reliable
C13_Witness ==
    /\ Returned("score")
    /\ fn.input.normal.angles = 1 /\ fn.input.normal.bones = 3
    /\ fn.result.normal.reason = "Pose not reliable."
    /\ C13_Exposed(fn.result.normal)
    /\ fn.result.mirrored.reliable
    /\ fn.result.chosen.mirror_used

\* C14: wrapped_angle_diff is symmetric and its result lies in [0,180] for all finite a and
\* b, also when |a - b| exceeds 360.
C14_SymmetricInRange ==
    Returned("wrapped_angle_diff") =>
        /\ fn.result.ab = fn.result.ba
        /\ fn.result.ab >= 0
        /\ fn.result.ab <= 180

\* a tick reads its frame in this step
C15_ReadStep == cam'.reads = cam.reads + 1

\* a decodable client_frame was handled no longer ago than the timeout
C15_RecentClientFrame == cam.newest # 0 /\ cam.now - cam.newest_at <= client_frame_timeout_sec

\* C15 as stated: in every camera mode a tick uses the newest client frame while a decodable
\* client_frame arrived within client_frame_timeout_sec, and the capture source or the
\* placeholder once that frame is older.
C15_ClientFrameOverridesAnyMode ==
    [][C15_ReadStep =>
          IF C15_RecentClientFrame
            THEN cam'.read = [source |-> "client", frame |-> cam.newest]
            ELSE cam'.read.source \in {"capture", "placeholder"}]_vars

\* C15, amended: in the camera modes auto and client a tick uses the newest client frame
\* while a decodable client_frame arrived within client_frame_timeout_sec, and the capture
\* source or the placeholder once it is older; in the modes webcam and hikvision client
\* frames are ignored and the tick always uses the capture source or the placeholder.
C15_ClientFrameOverrides ==
    [][C15_ReadStep =>
          IF C15_RecentClientFrame /\ cam.mode \in {"auto", "client"}
            THEN cam'.read = [source |-> "client", frame |-> cam.newest]
            ELSE cam'.read.source \in {"capture", "placeholder"}]_vars

\* a tick used the second client frame exactly one timeout after it came, in mode auto
C15_Witness ==
    /\ cam.mode = "auto"
    /\ cam.read = [source |-> "client", frame |-> 2]
    /\ cam.now = cam.latest_client_frame_at_monotonic + client_frame_timeout_sec
    /\ cam.reads = 1

\* the remote request of this call, had it been made, fails
C16_RemoteFails ==
    \/ fn.input.remote.kind \in {"http_error", "url_error", "timeout", "bad_json", "no_choices"}
    \/ \A i \in DOMAIN fn.input.remote.content : fn.input.remote.content[i] = Blank

C16_NoCredential == \A i \in DOMAIN fn.input.api_key : fn.input.api_key[i] = Blank

\* C16: generate always returns a (text, model) pair with non-empty text; the model is
\* "local-fallback" whenever remote feedback is disabled, no credential is set or the remote
\* request fails, and the local text then shows the numeric score; the result message is
\* built with that pair all the same.
C16_FeedbackNeverFails ==
    Returned("generate") =>
        /\ ~fn.result.raised
        /\ fn.result.text # <<>>
        /\ \E i \in DOMAIN fn.result.text : fn.result.text[i] # Blank
        /\ (~fn.input.enabled \/ C16_NoCredential \/ C16_RemoteFails) =>
              /\ fn.result.model = "local-fallback"
              /\ \E i \in DOMAIN fn.result.text :
                    /\ fn.result.text[i].kind = "score"
                    /\ "tenths" \in DOMAIN fn.result.text[i]
                    /\ fn.result.text[i].tenths * 10 - fn.input.metrics.score \in -5..5
        /\ fn.result.msg.type = "result"
        /\ fn.result.msg.feedback = fn.result.text
        /\ fn.result.msg.feedback_model = fn.result.model

\* remote feedback enabled with a key, the service answers with no JSON: local text
C16_Witness ==
    /\ Returned("generate")
    /\ fn.input.enabled /\ ~C16_NoCredential
    /\ fn.input.remote.kind = "bad_json"
    /\ fn.result.model = "local-fallback"
    /\ fn.input.metrics.score = 8496
    /\ Len(fn.result.text) = 15

\* C17: every landmarks message the server writes carries exactly 33 keypoints, also on a
\* tick whose detection found no pose.
C17_LandmarksCarry33 ==
    \A i \in DOMAIN out : out[i].type = "landmarks" => out[i].num = 33

\* C18: the lightweight streamer emits synthetic placeholder landmarks only when no detector
\* is configured; with a detector, a frame without a pose yields no synthesized landmarks.
C18_SyntheticOnlyWithoutDetector ==
    (Returned("detect") /\ fn.result.landmarks.synthetic) => ~fn.input.has_pose_model

\* C19: in finish the motion energy vel[] handed to the selector is computed from the raw
\* buffered poses of the session, not from the RTS-smoothed sequence.
C19_VelFromRawPoses ==
    (Returned("postprocess") /\ fn.input # <<>>) =>
        fn.result.post.vel = compute_motion_energy(RawPoses(fn.input))

\* the stable frames of a selector input, by the definition of the selector's contract:
\* valid, score within 12 of the best valid score, velocity finite and at most the 0.35
\* quantile of the finite velocities of valid frames (compared times 20)
C20_ValidFrames == {i \in DOMAIN sel.input : sel.input[i].score.fin /\ sel.input[i].reliable}

C20_SMax == CHOOSE m \in {sel.input[i].score.val : i \in C20_ValidFrames} :
                \A i \in C20_ValidFrames : sel.input[i].score.val <= m

C20_VelThreshold20 ==
    Quantile(SortedValues({i \in C20_ValidFrames : sel.input[i].vel.fin},
                          [i \in DOMAIN sel.input |-> sel.input[i].vel.val]), 7, 20)

C20_Stable(i) ==
    /\ i \in C20_ValidFrames
    /\ sel.input[i].score.val >= Max(0, C20_SMax - 12)
    /\ sel.input[i].vel.fin
    /\ 20 * sel.input[i].vel.val <= C20_VelThreshold20

\* C20: in mode stable_segment the reported segment [segment_start, segment_end) is a maximal
\* contiguous run of stable frames, at least max(3, round(0.8 * fps)) frames long, and the
\* picked index lies inside it.
C20_SegmentIsMaximalStableRun ==
    (sel.phase = "done" /\ sel.result.mode = "stable_segment") =>
        /\ sel.result.segment_start \in DOMAIN sel.input
        /\ sel.result.segment_end - 1 \in DOMAIN sel.input
        /\ \A i \in sel.result.segment_start..(sel.result.segment_end - 1) : C20_Stable(i)
        /\ sel.result.segment_start = 1 \/ ~C20_Stable(sel.result.segment_start - 1)
        /\ sel.result.segment_end = Len(sel.input) + 1 \/ ~C20_Stable(sel.result.segment_end)
        /\ sel.result.segment_end - sel.result.segment_start >= Max(3, (8 * sel.fps + 5) \div 10)
        /\ sel.result.segment_start <= sel.result.pick
        /\ sel.result.pick < sel.result.segment_end

\* a segment of 4 frames at 5 frames per second that begins after an unstable frame, the
\* pick not its first frame
C20_Witness ==
    /\ sel.phase = "done"
    /\ sel.result.mode = "stable_segment"
    /\ sel.fps = 5
    /\ sel.result.segment_start = 2
    /\ sel.result.segment_end = 6
    /\ sel.result.pick > 2

\* the stable frames of a selector input
C21_StableFrames == {i \in DOMAIN sel.input : C20_Stable(i)}

\* the qualifying runs, by the contract: maximal runs of stable frames (positions
\* start..end-1) of at least max(3, round(0.8 * fps)) frames
C21_Runs(stable) ==
    {r \in (1..Len(sel.input)) \X (2..(Len(sel.input) + 1)) :
        /\ r[2] - r[1] >= Max(3, (8 * sel.fps + 5) \div 10)
        /\ \A i \in r[1]..(r[2] - 1) : i \in stable
        /\ (r[1] - 1) \notin stable
        /\ r[2] \notin stable}

\* twice the median score of a run
C21_Median2(r) ==
    Median2(SortedValues(r[1]..(r[2] - 1), [i \in DOMAIN sel.input |-> sel.input[i].score.val]))

\* C21: of several qualifying stable runs the selector takes the one of the highest median
\* score, of runs with the same median the longer one, of runs equal in both the earliest;
\* no qualifying run has a strictly higher median than the one taken.
C21_BestRunChosen ==
    (sel.phase = "done" /\ sel.result.mode = "stable_segment") =>
        LET chosen == <<sel.result.segment_start, sel.result.segment_end>>
            runs == C21_Runs(C21_StableFrames)
            best == C21_Median2(chosen)
        IN  /\ chosen \in runs
            /\ \A r \in runs :
                  /\ C21_Median2(r) <= best
                  /\ C21_Median2(r) = best => r[2] - r[1] <= chosen[2] - chosen[1]
                  /\ (C21_Median2(r) = best /\ r[2] - r[1] = chosen[2] - chosen[1])
                        => chosen[1] <= r[1]

\* two runs of the same median, the second one longer, and it is taken
C21_Witness ==
    /\ sel.phase = "done"
    /\ sel.result.mode = "stable_segment"
    /\ sel.result.segment_start = 5
    /\ sel.result.segment_end = 9
    /\ Cardinality(C21_Runs(C21_StableFrames)) = 2
    /\ \A r \in C21_Runs(C21_StableFrames) : C21_Median2(r) = 180

\* two runs equal in median and length: the earlier one is taken
C21_WitnessEarliest ==
    /\ sel.phase = "done"
    /\ sel.result.mode = "stable_segment"
    /\ sel.result.segment_start = 1
    /\ sel.result.segment_end = 4
    /\ Cardinality(C21_Runs(C21_StableFrames)) = 2
    /\ \A r \in C21_Runs(C21_StableFrames) : r[2] - r[1] = 3 /\ C21_Median2(r) = 160

\* the valid frames of the highest scores: a set of k = min(7, valid frames) valid frames
\* that no valid frame outside it beats
C22_TopSets ==
    LET k == Min(7, Cardinality(C20_ValidFrames))
    IN  {t \in SUBSET C20_ValidFrames :
            /\ Cardinality(t) = k
            /\ \A i \in t, j \in C20_ValidFrames \ t :
                  sel.input[j].score.val <= sel.input[i].score.val}

\* 5 times the distance of a frame's score to the 80th percentile of the scores of top
C22_Distance5(i, top) ==
    Abs(5 * sel.input[i].score.val
        - Quantile(SortedValues(top, [j \in DOMAIN sel.input |-> sel.input[j].score.val]), 4, 5))

\* C22: with at least 3 valid frames and no stable run of the minimum length the selector
\* reports fallback_topk and picks a valid frame among the k = min(7, valid frames) valid
\* frames of the highest scores, one whose score is nearest to the 80th percentile of those
\* k scores; no valid frame outside that set scores strictly higher than every frame in it.
C22_FallbackTopK ==
    sel.phase = "done" =>
        /\ (Cardinality(C20_ValidFrames) >= 3 /\ C21_Runs(C21_StableFrames) = {})
              <=> sel.result.mode = "fallback_topk"
        /\ sel.result.mode = "fallback_topk" =>
              /\ sel.result.topk = Min(7, Cardinality(C20_ValidFrames))
              /\ \E top \in C22_TopSets :
                    /\ sel.result.pick \in top
                    /\ \A i \in top : C22_Distance5(sel.result.pick, top) <= C22_Distance5(i, top)
                    /\ \A j \in C20_ValidFrames \ top :
                          \E i \in top : sel.input[j].score.val <= sel.input[i].score.val

\* eight valid frames, none stable long enough: seven of them form the pick set
C22_Witness ==
    /\ sel.phase = "done"
    /\ sel.result.mode = "fallback_topk"
    /\ Cardinality(C20_ValidFrames) = 8
    /\ sel.result.topk = 7
    /\ sel.input[sel.result.pick].score.val = 80
    /\ \E i \in DOMAIN sel.input : sel.input[i].score.val = 60

\* the invalid measurements that immediately precede step k
C23_InvalidBefore(k) ==
    Cardinality({j \in 1..(k - 1) : \A i \in j..(k - 1) : ~meas_ok(fn.input.z[i])})

\* C23: in the forward pass the predicted state of step k is re-initialised to [z_k, 0]
\* exactly when the measurement at k is valid and at least reset_gap_frames invalid
\* measurements immediately precede it; the gap counter grows by one at every invalid step
\* and is 0 after every valid one; reset_gap_frames of a session is max(2, fps div 2).
C23_GapReset ==
    (fn.op = "kalman" /\ fn.phase \in {"forward", "done"} /\ "gaps" \in DOMAIN fn) =>
        /\ fn.reset_gap = Max(2, fn.input.fps \div 2)
        /\ \A k \in DOMAIN fn.gaps :
              /\ fn.x_pred[k].reset <=>
                    (meas_ok(fn.input.z[k]) /\ C23_InvalidBefore(k) >= fn.reset_gap)
              /\ fn.x_pred[k].reset => fn.x_pred[k].z = fn.input.z[k].z
              /\ meas_ok(fn.input.z[k]) => fn.gaps[k] = 0
              /\ ~meas_ok(fn.input.z[k]) => fn.gaps[k] = (IF k = 1 THEN 0 ELSE fn.gaps[k - 1]) + 1

\* a valid measurement after exactly reset_gap_frames = 3 invalid ones resets the state
C23_Witness ==
    /\ fn.op = "kalman" /\ fn.phase = "done" /\ "gaps" \in DOMAIN fn
    /\ fn.reset_gap = 3
    /\ Len(fn.input.z) = 5
    /\ fn.x_pred[5] = [reset |-> TRUE, z |-> 1]
    /\ fn.gaps = <<0, 1, 2, 3, 0>>

\* C24: FrameProvider attempts to open the source at most once every 3 seconds: any two
\* open attempts, the one at construction included, are at least 3 seconds apart, and a
\* read that comes sooner after the last attempt opens nothing.
C24_OpensThreeSecondsApart ==
    fn.op = "FrameProvider" =>
        /\ \A i, j \in DOMAIN fn.opens : i < j => fn.opens[j] - fn.opens[i] >= 3
        /\ (fn.last_read.frame # "none" /\ fn.last_read.age < 3) => ~fn.last_read.reopened

\* the same for the reopen attempts alone, the open at construction left out
C24_ReopensThreeSecondsApart ==
    fn.op = "FrameProvider" =>
        /\ \A i, j \in DOMAIN fn.opens : (1 < i /\ i < j) => fn.opens[j] - fn.opens[i] >= 3
        /\ (fn.last_read.frame # "none" /\ fn.last_read.age < 3) => ~fn.last_read.reopened

\* C25: a valid start_session handled while a session is active replaces it: after the
\* step there is exactly one active session, the new one, with empty buffers and a deadline
\* computed from the new command, and the step writes session_started and nothing else; a
\* replaced session is never scored and no result or session_stopped is written for it.
C25_StartReplaces ==
    /\ [][\A c \in Commands :
            (HandledCmd(c) /\ c.type = "start_session" /\ c.image = "ok" /\ active) =>
                /\ active' /\ sid' = sid + 1
                /\ \A s \in Sessions : fate'[s] = "active" <=> s = sid'
                /\ fate'[sid] = "replaced"
                /\ frames' = <<>> /\ poses' = <<>> /\ ts' = <<>>
                /\ started_at' = now
                /\ deadline_at' = now + DurationSec(c.countdown)
                /\ out' = Append(out, Msg("session_started", sid', deadline_at' - now, ""))
                /\ nresults' = nresults]_vars
    /\ [](\A s \in Sessions : fate[s] = "replaced" =>
            /\ nresults[s] = 0
            /\ \A i \in DOMAIN out :
                  out[i].type \in {"result", "session_stopped"} => out[i].sid # s)

\* session 1 had buffered a frame when a start_session read in the second drain of the
\* tick replaced it by session 2, which starts empty
C25_Witness ==
    /\ pc = "drain2"
    /\ active /\ sid = 2
    /\ fate[1] = "replaced" /\ fate[2] = "active"
    /\ frames = <<>> /\ observed = 0
    /\ Idx("session_progress") # {}
    /\ out[Len(out)].type = "session_started"

\* C26: the deadline is tested only after the second command drain of a tick: a result is
\* written only by the step that ends an empty second drain; a tick that finds its session
\* past the deadline still buffers one frame and writes session_progress with remaining_ms
\* 0; and a stop_session or a replacing start_session handled in the second drain of such
\* a tick ends the expired session first, so that no result is ever written for it.
C26_DeadlineAfterSecondDrain ==
    /\ [][/\ nresults' # nresults => (pc = "drain2" /\ inbox = <<>> /\ pc' = "sleep")
          /\ (pc = "drain1" /\ pc' = "drain2" /\ active /\ now >= deadline_at) =>
                /\ frames' = Append(frames, "jpeg") /\ Len(poses') = Len(poses) + 1
                /\ Msg("session_progress", sid, 0, "") \in {out'[i] : i \in DOMAIN out'}
                /\ Idx("result") = {} /\ active' /\ sid' = sid
          /\ \A c \in Commands :
                (/\ HandledCmd(c) /\ pc = "drain2" /\ active /\ now >= deadline_at
                 /\ \/ c.type = "stop_session"
                    \/ c.type = "start_session" /\ c.image = "ok") =>
                    /\ fate'[sid] \in {"stopped", "replaced"}
                    /\ nresults' = nresults
                    /\ \A i \in DOMAIN out' : out'[i].type # "result"]_vars
    /\ [](\A s \in Sessions : fate[s] \in {"stopped", "replaced"} => nresults[s] = 0)

\* the tick of an expired session has written remaining_ms 0, and the stop_session read in
\* its second drain has ended the session without a result
C26_Witness ==
    /\ pc = "drain2"
    /\ fate[1] = "stopped" /\ nresults[1] = 0
    /\ \E i, j \in DOMAIN out :
          /\ i < j
          /\ out[i] = Msg("session_progress", 1, 0, "")
          /\ out[j] = Msg("session_stopped", 1, 0, "")

\* the same with a replacing start_session
C26_WitnessReplaced ==
    /\ pc = "drain2"
    /\ fate[1] = "replaced" /\ nresults[1] = 0 /\ active /\ sid = 2
    /\ \E i, j \in DOMAIN out :
          /\ i < j
          /\ out[i] = Msg("session_progress", 1, 0, "")
          /\ out[j].type = "session_started"

\* C27: no inbound line ends the connection task: invalid JSON is answered by a warning
\* status, a JSON value that is not an object by nothing, and a command with a wrongly
\* typed field (rotation_degrees of client_frame, countdown_sec of start_session) is
\* handled without an exception leaving the session loop.
C27_NoLineEndsTheTask ==
    fn.op = "commands" =>
        /\ fn.task = "running"
        /\ fn.exc = "none"
        /\ \A i \in DOMAIN fn.lines :
              /\ fn.lines[i].kind = "invalid_json" => fn.replies[i] = "status:warning"
              /\ fn.lines[i].kind = "non_object" => fn.replies[i] = "none"

\* the countdown_sec values that int() rejects: a string that is no integer literal, a
\* list with elements
C27_Unconvertible(v) ==
    \/ v.kind = "list" /\ v.val > 0
    \/ v.kind = "str" /\ v.chars \notin {<<>>, <<"7">>, <<"-", "1">>}

\* what does hold: the task ends with an exception exactly on a start_session whose
\* reference image decodes and whose countdown_sec int() rejects; every other line,
\* a client_frame of any rotation_degrees included, leaves the task running
C27_OnlyCountdownEndsTheTask ==
    fn.op = "commands" =>
        /\ fn.task \in {"running", "failed"}
        /\ \A i \in DOMAIN fn.lines :
              /\ fn.lines[i].kind = "invalid_json" => fn.replies[i] = "status:warning"
              /\ fn.lines[i].kind = "non_object" => fn.replies[i] = "none"
        /\ fn.task = "failed" <=>
              /\ fn.lines # <<>>
              /\ Last(fn.lines).type = "start_session"
              /\ Last(fn.lines).image = "ok"
              /\ C27_Unconvertible(Last(fn.lines).field)

\* C28: whenever the selector returns a pick inside postprocess, the picked frame is valid:
\* it has a raw pose and a ScoreResult whose final is finite and reliable; the result is
\* then never "Selected frame has no valid score", its landmarks are the 33 keypoints of
\* the raw packet (never the smoothed fallback), its best_frame is the picked frame and
\* its best_score is the picked frame's final.
C28_PickIsScored ==
    Returned("postprocess") =>
        /\ fn.result.post.reason # NoScoreReason
        /\ (fn.input # <<>> /\ fn.result.post.picked # NoPick) =>
              LET best_idx == fn.result.post.picked.pick
              IN  /\ best_idx \in DOMAIN fn.input
                  /\ fn.input[best_idx].has_pose
                  /\ IsFinite(fn.input[best_idx].final)
                  /\ fn.input[best_idx].reliable
                  /\ RawPoses(fn.input)[best_idx].present
                  /\ fn.result.post.landmarks = pose_to_json_points(RawPoses(fn.input)[best_idx])
                  /\ fn.result.post.landmarks = 33
                  /\ fn.result.post.best_frame = best_idx
                  /\ fn.result.post.best_score = fn.input[best_idx].final.val
                  /\ fn.result.post.reason = ""

\* a buffer that starts with a frame without a pose, from which the selector picks a
\* scored frame whose raw pose gives the landmarks
C28_Witness ==
    /\ Returned("postprocess")
    /\ Len(fn.input) = MaxPostFrames
    /\ ~fn.input[1].has_pose
    /\ fn.result.post.picked # NoPick
    /\ fn.result.post.best_frame = fn.result.post.picked.pick
    /\ fn.result.post.best_score = 70
    /\ fn.result.post.landmarks = 33

\* the same with a frame whose pose has no final
C28_WitnessNoFinal ==
    /\ Returned("postprocess")
    /\ Len(fn.input) = MaxPostFrames
    /\ fn.input[1].has_pose /\ ~IsFinite(fn.input[1].final)
    /\ fn.result.post.picked # NoPick
    /\ fn.result.post.best_frame = fn.result.post.picked.pick

\* this tick's log shows session s started after the tick's frame was written, that is
\* in the second command drain
C29_StartedInSecondDrain(s) ==
    \E i, j \in DOMAIN out :
        /\ i < j
        /\ out[i].type = "frame"
        /\ out[j].type = "session_started" /\ out[j].sid = s

\* C29 as stated: whenever finish runs for a session at its deadline, the session has
\* buffered at least one frame, for every interleaving of command arrival and clock
\* advance, a session started in a tick's second command drain included.
C29_DeadlineFinishHasFrames ==
    [][nresults' # nresults => (frames # <<>> /\ poses # <<>>)]_vars

\* C29, amended: a deadline finish finds as many frames as ticks have read the session
\* as active; the buffers are empty exactly when the session was started in the second
\* command drain of the tick whose deadline test finishes it, and then the result is the
\* "No frames buffered" one; a session that has lived through a tick has a frame.
C29_DeadlineFinishFrames ==
    [][nresults' # nresults =>
          /\ pc = "drain2" /\ active /\ now >= deadline_at
          /\ Len(frames) = observed /\ Len(poses) = observed
          /\ (frames = <<>>) <=> C29_StartedInSecondDrain(sid)
          /\ out' = Append(out, Msg("result", sid, observed, IF observed = 0 THEN EmptyReason ELSE "postprocess"))]_vars

\* session 1, started in the second drain of a tick, was finished by that tick's deadline
\* test a second later, with nothing buffered
C29_Witness ==
    /\ pc = "sleep"
    /\ fate[1] = "finished" /\ nresults[1] = 1
    /\ C29_StartedInSecondDrain(1)
    /\ Last(out) = Msg("result", 1, 0, EmptyReason)

\* a session finished after a tick has a frame
C29_WitnessBuffered ==
    /\ pc = "sleep"
    /\ fate[1] = "finished" /\ nresults[1] = 1
    /\ Last(out) = Msg("result", 1, 1, "postprocess")

\* the index an index is paired with (itself when it is in no pair)
C30_Partner(i) ==
    IF \E k \in DOMAIN LEFT_RIGHT_SWAP_PAIRS : LEFT_RIGHT_SWAP_PAIRS[k][1] = i
      THEN LEFT_RIGHT_SWAP_PAIRS[CHOOSE k \in DOMAIN LEFT_RIGHT_SWAP_PAIRS : LEFT_RIGHT_SWAP_PAIRS[k][1] = i][2]
    ELSE IF \E k \in DOMAIN LEFT_RIGHT_SWAP_PAIRS : LEFT_RIGHT_SWAP_PAIRS[k][2] = i
      THEN LEFT_RIGHT_SWAP_PAIRS[CHOOSE k \in DOMAIN LEFT_RIGHT_SWAP_PAIRS : LEFT_RIGHT_SWAP_PAIRS[k][2] = i][1]
    ELSE i

\* what one application is to return for the array v
C30_Once(v) ==
    IF fn.op = "swap_left_right" THEN [i \in Landmarks |-> v[C30_Partner(i)]]
    ELSE [i \in Landmarks |-> <<0 - v[C30_Partner(i)][1], v[C30_Partner(i)][2], v[C30_Partner(i)][3]>>]

\* C30: the 16 pairs are disjoint and cover exactly the indices 1..32, index 0 is in none;
\* swap_left_right returns the array with each pair exchanged, and applied to its own
\* result it returns the original array; mirror_and_swap_points applied twice returns the
\* original points; the array a call is given is never written, and each call returns an
\* array of its own.
C30_SwapIsInvolution ==
    /\ Len(LEFT_RIGHT_SWAP_PAIRS) = 16
    /\ \A k, n \in DOMAIN LEFT_RIGHT_SWAP_PAIRS :
          /\ LEFT_RIGHT_SWAP_PAIRS[k][1] # LEFT_RIGHT_SWAP_PAIRS[k][2]
          /\ k # n => {LEFT_RIGHT_SWAP_PAIRS[k][1], LEFT_RIGHT_SWAP_PAIRS[k][2]}
                         \cap {LEFT_RIGHT_SWAP_PAIRS[n][1], LEFT_RIGHT_SWAP_PAIRS[n][2]} = {}
    /\ UNION {{LEFT_RIGHT_SWAP_PAIRS[k][1], LEFT_RIGHT_SWAP_PAIRS[k][2]} : k \in DOMAIN LEFT_RIGHT_SWAP_PAIRS} = 1..32
    /\ fn.op \in {"swap_left_right", "mirror_and_swap_points"} =>
          /\ fn.heap[1] = fn.input
          /\ \A n \in DOMAIN fn.results :
                /\ fn.results[n] # 1
                /\ \A j \in DOMAIN fn.results : j # n => fn.results[j] # fn.results[n]
                /\ fn.heap[fn.results[n]] = IF n = 1 THEN C30_Once(fn.input) ELSE fn.input
          /\ fn.phase = "loop" => (fn.out # fn.arg /\ fn.heap[fn.out][0] = fn.heap[fn.values][0])
          /\ (fn.phase = "done" /\ fn.op = "swap_left_right") =>
                fn.heap[fn.results[1]][0] = fn.input[0]

\* swap_left_right applied twice to the array of 33 distinct labels: the first result
\* differs from the input at every index but 0, the second is the input
C30_Witness ==
    /\ fn.op = "swap_left_right"
    /\ fn.phase = "done"
    /\ fn.input = [i \in Landmarks |-> <<i>>]
    /\ \A i \in 1..32 : fn.heap[fn.results[1]][i] # fn.input[i]
    /\ fn.heap[fn.results[1]][4] = <<1>>
    /\ fn.heap[fn.results[2]] = fn.input

\* mirror_and_swap_points applied twice to points with x of either sign
C30_WitnessPoints ==
    /\ fn.op = "mirror_and_swap_points"
    /\ fn.phase = "done"
    /\ \E i, j \in Landmarks : fn.input[i][1] < 0 /\ fn.input[j][1] > 0
    /\ fn.heap[fn.results[1]] # fn.input
    /\ fn.heap[fn.results[2]] = fn.input

====
